---------------------------- MODULE Spec2Model ----------------------------
(***************************************************************************)
(* The MIR -> Cranelift bridge (src/compiler/cranelift/src).               *)
(*                                                                         *)
(* A host hands a byte stream to one of three C entry points               *)
(* (cranelift_compile_mir, cranelift_compile_mir_cgu,                      *)
(* cranelift_generate_ir); the bridge decodes it (MirBinaryReader),        *)
(* declares and defines the functions in a backend object module           *)
(* (ModuleTranslator) and returns a CraneliftResult whose buffers the host *)
(* gives back with cranelift_free_result.                                  *)
(*                                                                         *)
(* Strings are sequences of Unicode scalar values, bytes are 0..255, and   *)
(* every Rust `Result` is a record with an `ok` field.                     *)
(***************************************************************************)
EXTENDS Integers, Sequences, FiniteSets, TLC

VARIABLES
    phase,      \* "idle" before a call, "returned" once the host holds a result
    call,       \* what the host called: entry point, input bytes, index list, backend fault
    held,        \* the CraneliftResult struct the host holds
    buffers,    \* the heap: the buffers handed to the host, with their release counts
    outcome,    \* how the body of the last call ended: Ok, a BridgeError, or a panic
    tr,         \* the ModuleTranslator at the end of the last call (None if none was built)
    frees       \* how many times the host has called cranelift_free_result on held

vars == <<phase, call, held, buffers, outcome, tr, frees>>

-----------------------------------------------------------------------------
(* Strings *)

\* The characters the model writes literals with, and their code points.
Alphabet == "abcdefghijklmnopqrstuvwxyz0123456789_$.:' (),<>=-ABCDEFGHIJKLMNOPQRSTUVWXYZ;{}"

AlphabetCodes ==
    <<97, 98, 99, 100, 101, 102, 103, 104, 105, 106, 107, 108, 109, 110, 111,
      112, 113, 114, 115, 116, 117, 118, 119, 120, 121, 122,
      48, 49, 50, 51, 52, 53, 54, 55, 56, 57,
      95, 36, 46, 58, 39, 32, 40, 41, 44, 60, 62, 61, 45,
      65, 66, 67, 68, 69, 70, 71, 72, 73, 74, 75, 76, 77, 78, 79, 80, 81, 82,
      83, 84, 85, 86, 87, 88, 89, 90,
      59, 123, 125>>

Ord(c) == AlphabetCodes[CHOOSE i \in 1..Len(Alphabet) : SubSeq(Alphabet, i, i) = c]

\* A string literal as a sequence of code points.
S(str) == [i \in 1..Len(str) |-> Ord(SubSeq(str, i, i))]

starts_with(s, prefix) ==
    Len(s) >= Len(prefix) /\ SubSeq(s, 1, Len(prefix)) = prefix

\* A string between double quotes.
Quoted(s) == <<34>> \o s \o <<34>>

NL == <<10>>

contains_nul(s) == \E i \in 1..Len(s) : s[i] = 0

\* Decimal digits of a natural number ({} of an integer).
Dec(n) == S(ToString(n))

HexDigits == S("0123456789ABCDEF")

RECURSIVE HexN(_, _)
HexN(n, width) ==
    IF width = 0 THEN <<>>
    ELSE HexN(n \div 16, width - 1) \o <<HexDigits[(n % 16) + 1]>>

\* {:08X}
Hex8(n) == HexN(n, 8)

\* Rust's `let v = e;`: F applied to e.
Let(v, F(_)) == F(v)

Max(a, b) == IF a >= b THEN a ELSE b
Min(a, b) == IF a <= b THEN a ELSE b

\* A loop over lo..hi that carries acc and leaves at the first failure, as a
\* `for` loop whose body ends in `?` does.  The range is halved and the left
\* half is finished before the right half is entered.
RECURSIVE try_fold(_, _, _, _, _)
try_fold(Step(_, _), Failed(_), acc, lo, hi) ==
    IF lo > hi THEN acc
    ELSE IF lo = hi THEN (IF Failed(acc) THEN acc ELSE Step(acc, lo))
    ELSE LET mid == (lo + hi) \div 2
             left == try_fold(Step, Failed, acc, lo, mid)
         IN  IF Failed(left) THEN left ELSE try_fold(Step, Failed, left, mid + 1, hi)

\* A loop that cannot fail.
Never(acc) == acc # acc

fold(Step(_, _), acc, lo, hi) == try_fold(Step, Never, acc, lo, hi)

\* The concatenation of the sequences ss[lo..hi], and of all of ss.
RECURSIVE FlattenRange(_, _, _)
FlattenRange(ss, lo, hi) ==
    IF lo > hi THEN <<>>
    ELSE IF lo = hi THEN ss[lo]
    ELSE FlattenRange(ss, lo, (lo + hi) \div 2) \o FlattenRange(ss, (lo + hi) \div 2 + 1, hi)

Flatten(ss) == FlattenRange(ss, 1, Len(ss))

-----------------------------------------------------------------------------
(* error.rs: BridgeError and its Display *)

MirDeserialize(msg) == [kind |-> "MirDeserialize", msg |-> msg]
Translation(msg) == [kind |-> "Translation", msg |-> msg]
Codegen(msg) == [kind |-> "Codegen", msg |-> msg]
UnsupportedInstruction(msg) == [kind |-> "UnsupportedInstruction", msg |-> msg]
InvalidTarget(msg) == [kind |-> "InvalidTarget", msg |-> msg]

\* impl fmt::Display for BridgeError
to_string(e) ==
    CASE e.kind = "MirDeserialize" -> S("MIR deserialization error: ") \o e.msg
      [] e.kind = "Translation" -> S("translation error: ") \o e.msg
      [] e.kind = "Codegen" -> S("codegen error: ") \o e.msg
      [] e.kind = "UnsupportedInstruction" -> S("unsupported instruction: ") \o e.msg
      [] e.kind = "InvalidTarget" -> S("invalid target: ") \o e.msg

\* Rust's Result: Ok carries the value (and, in the reader, the new position).
Ok(v, p) == [ok |-> TRUE, v |-> v, pos |-> p]
Err(e) == [ok |-> FALSE, err |-> e]

-----------------------------------------------------------------------------
(* mir_reader.rs: the primitive readers.  d is the data, p the position   *)
(* (0-based, as in the source).                                            *)

MIR_MAGIC == 1414351186          \* 0x544D4952
MIR_VERSION_MAJOR == 1

read_u8(d, p) ==
    IF p >= Len(d) THEN Err(MirDeserialize(S("unexpected EOF reading u8")))
    ELSE Ok(d[p + 1], p + 1)

read_u16(d, p) ==
    IF p + 2 > Len(d) THEN Err(MirDeserialize(S("unexpected EOF reading u16")))
    ELSE Ok(d[p + 1] + 256 * d[p + 2], p + 2)

\* (variant: a u32 read with u32::from_be_bytes)
read_u32_be(d, p) ==
    IF p + 4 > Len(d) THEN Err(MirDeserialize(S("unexpected EOF reading u32")))
    ELSE Ok(16777216 * d[p + 1] + 65536 * d[p + 2] + 256 * d[p + 3] + d[p + 4], p + 4)

read_u32(d, p) ==
    IF p + 4 > Len(d) THEN Err(MirDeserialize(S("unexpected EOF reading u32")))
    ELSE Ok(d[p + 1] + 256 * d[p + 2] + 65536 * d[p + 3] + 16777216 * d[p + 4], p + 4)

\* The 64-bit readers return the eight little-endian bytes: the number they
\* stand for, written in base 256.
read_u64(d, p) ==
    IF p + 8 > Len(d) THEN Err(MirDeserialize(S("unexpected EOF reading u64")))
    ELSE Ok(SubSeq(d, p + 1, p + 8), p + 8)

read_i64(d, p) ==
    IF p + 8 > Len(d) THEN Err(MirDeserialize(S("unexpected EOF reading i64")))
    ELSE Ok(SubSeq(d, p + 1, p + 8), p + 8)

read_f64(d, p) ==
    IF p + 8 > Len(d) THEN Err(MirDeserialize(S("unexpected EOF reading f64")))
    ELSE Ok(SubSeq(d, p + 1, p + 8), p + 8)

REPLACEMENT_CHARACTER == 65533   \* U+FFFD

IsCont(b) == b >= 128 /\ b <= 191

\* The bytes after a lead byte must lie in these ranges (Unicode table 3-7).
SecondLo(b0) == IF b0 = 224 THEN 160 ELSE IF b0 = 240 THEN 144 ELSE 128
SecondHi(b0) == IF b0 = 237 THEN 159 ELSE IF b0 = 244 THEN 143 ELSE 191

Utf8Width(b0) ==
    IF b0 < 128 THEN 1
    ELSE IF b0 >= 194 /\ b0 <= 223 THEN 2
    ELSE IF b0 >= 224 /\ b0 <= 239 THEN 3
    ELSE IF b0 >= 240 /\ b0 <= 244 THEN 4
    ELSE 0

\* One step of the lossy decoder at index i (1-based) of b: the scalar value
\* produced and the number of bytes consumed.  An ill-formed sequence yields
\* U+FFFD for its maximal valid prefix (at least one byte).
Utf8Step(b, i) ==
    LET b0 == b[i]
        w == Utf8Width(b0)
        has(k) == i + k <= Len(b)
        ok2 == has(1) /\ b[i + 1] >= SecondLo(b0) /\ b[i + 1] <= SecondHi(b0)
        ok3 == ok2 /\ has(2) /\ IsCont(b[i + 2])
        ok4 == ok3 /\ has(3) /\ IsCont(b[i + 3])
        bad(n) == [c |-> REPLACEMENT_CHARACTER, n |-> n]
    IN  CASE w = 1 -> [c |-> b0, n |-> 1]
          [] w = 0 -> bad(1)
          [] w = 2 -> IF ok2 THEN [c |-> (b0 - 192) * 64 + (b[i + 1] - 128), n |-> 2]
                      ELSE bad(1)
          [] w = 3 -> IF ok3
                      THEN [c |-> (b0 - 224) * 4096 + (b[i + 1] - 128) * 64 + (b[i + 2] - 128),
                            n |-> 3]
                      ELSE IF ok2 THEN bad(2) ELSE bad(1)
          [] w = 4 -> IF ok4
                      THEN [c |-> (b0 - 240) * 262144 + (b[i + 1] - 128) * 4096
                                  + (b[i + 2] - 128) * 64 + (b[i + 3] - 128),
                            n |-> 4]
                      ELSE IF ok3 THEN bad(3) ELSE IF ok2 THEN bad(2) ELSE bad(1)

\* String::from_utf8_lossy
from_utf8_lossy(b) ==
    LET step(a, k) ==
            IF a.i > Len(b) THEN a
            ELSE LET st == Utf8Step(b, a.i) IN [out |-> Append(a.out, st.c), i |-> a.i + st.n]
    IN  fold(step, [out |-> <<>>, i |-> 1], 1, Len(b)).out

read_string(d, p) ==
    LET l == read_u32(d, p) IN
    IF ~l.ok THEN l
    ELSE IF l.pos + l.v > Len(d)
         THEN Err(MirDeserialize(S("unexpected EOF reading string")))
         ELSE Ok(from_utf8_lossy(SubSeq(d, l.pos + 1, l.pos + l.v)), l.pos + l.v)

RECURSIVE read_type(_, _)
RECURSIVE read_field(_, _, _)
RECURSIVE read_fields(_, _, _, _)

read_value(d, p) ==
    LET r == read_u32(d, p) IN
    IF ~r.ok THEN r ELSE Ok([id |-> r.v], r.pos)

\* `for _ in 0..count { v.push(read(...)?) }`
read_vec(f, d, p, n) ==
    LET failed(a) == ~a.ok
        step(a, k) == LET r == read_field(f, d, a.pos) IN
                      IF ~r.ok THEN r ELSE Ok(Append(a.v, r.v), r.pos)
    IN  try_fold(step, failed, Ok(<<>>, p), 1, n)

\* A u32 count followed by that many elements.
read_counted(f, d, p) ==
    LET c == read_u32(d, p) IN
    IF ~c.ok THEN c ELSE read_vec(f, d, c.pos, c.v)

-----------------------------------------------------------------------------
(* mir_types.rs: the tag tables (`from_u8`); a tag outside the table is   *)
(* None.                                                                   *)

PrimitiveType ==
    <<"Unit", "Bool", "I8", "I16", "I32", "I64", "I128", "U8", "U16", "U32",
      "U64", "U128", "F32", "F64", "Ptr", "Str">>

BinOp ==
    <<"Add", "Sub", "Mul", "Div", "Mod", "Eq", "Ne", "Lt", "Le", "Gt", "Ge",
      "And", "Or", "BitAnd", "BitOr", "BitXor", "Shl", "Shr">>

UnaryOp == <<"Neg", "Not", "BitNot">>

CastKind ==
    <<"Bitcast", "Trunc", "ZExt", "SExt", "FPTrunc", "FPExt", "FPToSI", "FPToUI",
      "SIToFP", "UIToFP", "PtrToInt", "IntToPtr">>

\* from_u8 over one of the tables above, then `.ok_or_else(|| MirDeserialize(msg))`
from_u8(table, d, p, msg) ==
    LET r == read_u8(d, p) IN
    IF ~r.ok THEN r
    ELSE IF r.v < Len(table) THEN Ok(table[r.v + 1], r.pos)
         ELSE Err(MirDeserialize(msg))

\* `self.read_u8()? != 0`
read_bool(d, p) ==
    LET r == read_u8(d, p) IN
    IF ~r.ok THEN r ELSE Ok(r.v # 0, r.pos)

Primitive(prim) == [k |-> "Primitive", prim |-> prim]

-----------------------------------------------------------------------------
(* mir_reader.rs: types, constants, instructions, terminators.  A variant's *)
(* payload is a fixed list of fields read in order; read_fields reads such *)
(* a list and stops at the first error, as the chain of `?` does.          *)

read_u32_pair_value(d, p) ==            \* (read_value, read_u32): a phi incoming pair
    LET v == read_value(d, p) IN
    IF ~v.ok THEN v
    ELSE LET b == read_u32(d, v.pos) IN
         IF ~b.ok THEN b ELSE Ok(<<v.v, b.v>>, b.pos)

read_case(d, p) ==                      \* (read_i64, read_u32): a switch case
    LET v == read_i64(d, p) IN
    IF ~v.ok THEN v
    ELSE LET b == read_u32(d, v.pos) IN
         IF ~b.ok THEN b ELSE Ok(<<v.v, b.v>>, b.pos)

read_capture(d, p) ==                   \* (read_string, read_value)
    LET n == read_field("string", d, p) IN
    IF ~n.ok THEN n
    ELSE LET v == read_value(d, n.pos) IN
         IF ~v.ok THEN v ELSE Ok(<<n.v, v.v>>, v.pos)

read_cap_type(d, p) ==                  \* (read_string, read_type)
    LET n == read_field("string", d, p) IN
    IF ~n.ok THEN n
    ELSE LET t == read_field("type", d, n.pos) IN
         IF ~t.ok THEN t ELSE Ok(<<n.v, t.v>>, t.pos)

read_fields(fs, d, p, acc) ==
    IF fs = <<>> THEN Ok(acc, p)
    ELSE LET r == read_field(Head(fs), d, p) IN
         IF ~r.ok THEN r ELSE read_fields(Tail(fs), d, r.pos, Append(acc, r.v))

\* Read the fields fs and build the variant with Make.
read_variant(fs, Make(_), d, p) ==
    LET r == read_fields(fs, d, p, <<>>) IN
    IF ~r.ok THEN r ELSE Ok(Make(r.v), r.pos)

read_primitive(d, p) ==
    LET r == read_u8(d, p) IN
    IF ~r.ok THEN r
    ELSE IF r.v < Len(PrimitiveType) THEN Ok(Primitive(PrimitiveType[r.v + 1]), r.pos)
         ELSE Err(MirDeserialize(S("unknown primitive type: ") \o Dec(r.v)))

read_type(d, p) ==
    LET t == read_u8(d, p) IN
    IF ~t.ok THEN t
    ELSE LET tag == t.v
             q == t.pos
             Pointer(v) == [k |-> "Pointer", is_mut |-> v[1], pointee |-> v[2]]
             Array(v) == [k |-> "Array", size |-> v[1], element |-> v[2]]
             Slice(v) == [k |-> "Slice", element |-> v[1]]
             Tuple(v) == [k |-> "Tuple", elements |-> v[1]]
             Struct(v) == [k |-> "Struct", name |-> v[1], type_args |-> v[2]]
             Enum(v) == [k |-> "Enum", name |-> v[1], type_args |-> v[2]]
             Function(v) == [k |-> "Function", params |-> v[1], return_type |-> v[2]]
         IN  CASE tag = 0 -> read_field("primitive", d, q)
               [] tag = 1 -> read_variant(<<"bool", "type">>, Pointer, d, q)
               [] tag = 2 -> read_variant(<<"u64", "type">>, Array, d, q)
               [] tag = 3 -> read_variant(<<"type">>, Slice, d, q)
               [] tag = 4 -> read_variant(<<"types">>, Tuple, d, q)
               [] tag = 5 -> read_variant(<<"string", "types">>, Struct, d, q)
               [] tag = 6 -> read_variant(<<"string", "types">>, Enum, d, q)
               [] tag = 7 -> read_variant(<<"types", "type">>, Function, d, q)
               [] OTHER -> Err(MirDeserialize(S("unknown type tag: ") \o Dec(tag)))

read_constant_value(d, p) ==
    LET t == read_u8(d, p) IN
    IF ~t.ok THEN t
    ELSE LET tag == t.v
             q == t.pos
             ConstInt(v) == [k |-> "Int", value |-> v[1], bit_width |-> v[2], is_signed |-> v[3]]
             ConstFloat(v) == [k |-> "Float", value |-> v[1], is_f64 |-> v[2]]
             ConstBool(v) == [k |-> "Bool", value |-> v[1]]
             ConstString(v) == [k |-> "String", value |-> v[1]]
         IN  CASE tag = 0 -> read_variant(<<"i64", "u8", "bool">>, ConstInt, d, q)
               [] tag = 1 -> read_variant(<<"f64", "bool">>, ConstFloat, d, q)
               [] tag = 2 -> read_variant(<<"bool">>, ConstBool, d, q)
               [] tag = 3 -> read_variant(<<"string">>, ConstString, d, q)
               [] tag = 4 -> Ok([k |-> "Unit"], q)
               [] OTHER -> Err(MirDeserialize(S("unknown constant tag: ") \o Dec(tag)))

\* ClosureInit: one count, then that many captures, then that many capture
\* types, then the function type and the result type.
read_closure_init(d, p) ==
    LET n == read_field("string", d, p) IN
    IF ~n.ok THEN n
    ELSE LET c == read_u32(d, n.pos) IN
    IF ~c.ok THEN c
    ELSE LET caps == read_vec("capture", d, c.pos, c.v) IN
    IF ~caps.ok THEN caps
    ELSE LET tys == read_vec("cap_type", d, caps.pos, c.v) IN
    IF ~tys.ok THEN tys
    ELSE LET r == read_fields(<<"type", "type">>, d, tys.pos, <<>>) IN
    IF ~r.ok THEN r
    ELSE Ok([tag |-> "ClosureInit", func_name |-> n.v, captures |-> caps.v,
             cap_types |-> tys.v, func_type |-> r.v[1], result_type |-> r.v[2]], r.pos)

read_inst_payload(tag, d, q) ==
    LET Binary(v) == [tag |-> "Binary", op |-> v[1], left |-> v[2], right |-> v[3]]
        Unary(v) == [tag |-> "Unary", op |-> v[1], operand |-> v[2]]
        Load(v) == [tag |-> "Load", ptr |-> v[1]]
        Store(v) == [tag |-> "Store", ptr |-> v[1], value |-> v[2]]
        Alloca(v) == [tag |-> "Alloca", name |-> v[1], alloc_type |-> v[2]]
        Gep(v) == [tag |-> "Gep", base |-> v[1], indices |-> v[2]]
        ExtractValue(v) == [tag |-> "ExtractValue", aggregate |-> v[1], indices |-> v[2]]
        InsertValue(v) ==
            [tag |-> "InsertValue", aggregate |-> v[1], value |-> v[2], indices |-> v[3]]
        Call(v) == [tag |-> "Call", func_name |-> v[1], args |-> v[2], return_type |-> v[3]]
        MethodCall(v) ==
            [tag |-> "MethodCall", receiver |-> v[1], method_name |-> v[2], args |-> v[3],
             return_type |-> v[4]]
        Cast(v) == [tag |-> "Cast", kind |-> v[1], operand |-> v[2], target_type |-> v[3]]
        Phi(v) == [tag |-> "Phi", incoming |-> v[1]]
        Select(v) ==
            [tag |-> "Select", condition |-> v[1], true_val |-> v[2], false_val |-> v[3]]
        StructInit(v) == [tag |-> "StructInit", struct_name |-> v[1], fields |-> v[2]]
        EnumInit(v) ==
            [tag |-> "EnumInit", enum_name |-> v[1], variant_name |-> v[2], payload |-> v[3]]
        TupleInit(v) == [tag |-> "TupleInit", elements |-> v[1]]
        ArrayInit(v) == [tag |-> "ArrayInit", element_type |-> v[1], elements |-> v[2]]
        Await(v) ==
            [tag |-> "Await", poll_value |-> v[1], poll_type |-> v[2], result_type |-> v[3],
             suspension_id |-> v[4]]
        c == read_field("constant_value", d, q)
    IN  CASE tag = 0 -> read_variant(<<"binop", "value", "value">>, Binary, d, q)
          [] tag = 1 -> read_variant(<<"unaryop", "value">>, Unary, d, q)
          [] tag = 2 -> read_variant(<<"value">>, Load, d, q)
          [] tag = 3 -> read_variant(<<"value", "value">>, Store, d, q)
          [] tag = 4 -> read_variant(<<"string", "type">>, Alloca, d, q)
          [] tag = 5 -> read_variant(<<"value", "values">>, Gep, d, q)
          [] tag = 6 -> read_variant(<<"value", "u32s">>, ExtractValue, d, q)
          [] tag = 7 -> read_variant(<<"value", "value", "u32s">>, InsertValue, d, q)
          [] tag = 8 -> read_variant(<<"string", "values", "type">>, Call, d, q)
          [] tag = 9 -> read_variant(<<"value", "string", "values", "type">>, MethodCall, d, q)
          [] tag = 10 -> read_variant(<<"castkind", "value", "type">>, Cast, d, q)
          [] tag = 11 -> read_variant(<<"incoming">>, Phi, d, q)
          [] tag = 12 -> IF ~c.ok THEN c ELSE Ok([tag |-> "Constant", c |-> c.v], c.pos)
          [] tag = 13 -> read_variant(<<"value", "value", "value">>, Select, d, q)
          [] tag = 14 -> read_variant(<<"string", "values">>, StructInit, d, q)
          [] tag = 15 -> read_variant(<<"string", "string", "values">>, EnumInit, d, q)
          [] tag = 16 -> read_variant(<<"values">>, TupleInit, d, q)
          [] tag = 17 -> read_variant(<<"type", "values">>, ArrayInit, d, q)
          [] tag = 18 -> read_variant(<<"value", "type", "type", "u32">>, Await, d, q)
          [] tag = 19 -> read_field("closure_init", d, q)
          [] OTHER -> Err(MirDeserialize(S("unknown instruction tag: ") \o Dec(tag)))

read_instruction(d, p) ==
    LET r == read_fields(<<"u32", "u8">>, d, p, <<>>) IN
    IF ~r.ok THEN r
    ELSE Let(read_inst_payload(r.v[2], d, r.pos), LAMBDA i:
         IF ~i.ok THEN i ELSE Ok([result |-> r.v[1], inst |-> i.v], i.pos))

read_return(d, p) ==
    LET h == read_bool(d, p) IN
    IF ~h.ok THEN h
    ELSE IF h.v
         THEN LET v == read_value(d, h.pos) IN
              IF ~v.ok THEN v ELSE Ok([tag |-> "Return", value |-> <<v.v>>], v.pos)
         ELSE Ok([tag |-> "Return", value |-> <<>>], h.pos)

read_terminator(d, p) ==
    LET t == read_u8(d, p) IN
    IF ~t.ok THEN t
    ELSE LET tag == t.v
             q == t.pos
             Branch(v) == [tag |-> "Branch", target |-> v[1]]
             CondBranch(v) ==
                 [tag |-> "CondBranch", condition |-> v[1], true_block |-> v[2],
                  false_block |-> v[3]]
             Switch(v) ==
                 [tag |-> "Switch", discriminant |-> v[1], cases |-> v[2],
                  default_block |-> v[3]]
         IN  CASE tag = 0 -> read_field("return", d, q)
               [] tag = 1 -> read_variant(<<"u32">>, Branch, d, q)
               [] tag = 2 -> read_variant(<<"value", "u32", "u32">>, CondBranch, d, q)
               [] tag = 3 -> read_variant(<<"value", "cases", "u32">>, Switch, d, q)
               [] tag = 4 -> Ok([tag |-> "Unreachable"], q)
               [] OTHER -> Err(MirDeserialize(S("unknown terminator tag: ") \o Dec(tag)))

\* An Option is a sequence of length 0 (None) or 1 (Some).
read_block(d, p) ==
    LET r == read_fields(<<"u32", "string", "u32s">>, d, p, <<>>) IN
    IF ~r.ok THEN r
    ELSE LET is == read_counted("instruction", d, r.pos) IN
    IF ~is.ok THEN is
    ELSE LET h == read_bool(d, is.pos) IN
    IF ~h.ok THEN h
    ELSE LET t == IF h.v THEN read_field("terminator", d, h.pos) ELSE Ok(<<>>, h.pos) IN
    IF ~t.ok THEN t
    ELSE Ok([id |-> r.v[1], name |-> r.v[2], predecessors |-> r.v[3],
             instructions |-> is.v,
             terminator |-> IF h.v THEN <<t.v>> ELSE <<>>], t.pos)

read_param(d, p) ==
    LET FunctionParam(v) == [name |-> v[1], ty |-> v[2], value_id |-> v[3]]
    IN  read_variant(<<"string", "type", "u32">>, FunctionParam, d, p)

read_function(d, p) ==
    LET r == read_fields(<<"string", "bool">>, d, p, <<>>) IN
    IF ~r.ok THEN r
    ELSE LET ps == read_counted("param", d, r.pos) IN
    IF ~ps.ok THEN ps
    ELSE LET rt == read_field("type", d, ps.pos) IN
    IF ~rt.ok THEN rt
    ELSE LET bs == read_counted("block", d, rt.pos) IN
    IF ~bs.ok THEN bs
    ELSE LET n == read_fields(<<"u32", "u32">>, d, bs.pos, <<>>) IN
    IF ~n.ok THEN n
    ELSE Ok([name |-> r.v[1], is_public |-> r.v[2], params |-> ps.v,
             return_type |-> rt.v, blocks |-> bs.v,
             next_value_id |-> n.v[1], next_block_id |-> n.v[2]], n.pos)

read_struct_field(d, p) ==
    LET StructField(v) == [name |-> v[1], ty |-> v[2]]
    IN  read_variant(<<"string", "type">>, StructField, d, p)

read_struct_def(d, p) ==
    LET r == read_fields(<<"string", "strings">>, d, p, <<>>) IN
    IF ~r.ok THEN r
    ELSE LET fs == read_counted("struct_field", d, r.pos) IN
         IF ~fs.ok THEN fs
         ELSE Ok([name |-> r.v[1], type_params |-> r.v[2], fields |-> fs.v], fs.pos)

read_enum_variant(d, p) ==
    LET EnumVariant(v) == [name |-> v[1], payload_types |-> v[2]]
    IN  read_variant(<<"string", "types">>, EnumVariant, d, p)

read_enum_def(d, p) ==
    LET r == read_fields(<<"string", "strings">>, d, p, <<>>) IN
    IF ~r.ok THEN r
    ELSE LET vs == read_counted("enum_variant", d, r.pos) IN
         IF ~vs.ok THEN vs
         ELSE Ok([name |-> r.v[1], type_params |-> r.v[2], variants |-> vs.v], vs.pos)

read_named_constant(d, p) ==
    LET n == read_field("string", d, p) IN
    IF ~n.ok THEN n
    ELSE LET c == read_field("constant_value", d, n.pos) IN
         IF ~c.ok THEN c ELSE Ok(<<n.v, c.v>>, c.pos)

\* (variant: a header check that accepts any major version)
verify_header_any_major(d, p) ==
    LET magic == read_u32(d, p) IN
    IF ~magic.ok THEN magic
    ELSE IF magic.v # MIR_MAGIC
    THEN Err(MirDeserialize(S("invalid magic: expected 0x") \o Hex8(MIR_MAGIC)
                            \o S(", got 0x") \o Hex8(magic.v)))
    ELSE LET major == read_u16(d, magic.pos) IN
    IF ~major.ok THEN major
    ELSE LET minor == read_u16(d, major.pos) IN
    IF ~minor.ok THEN minor ELSE Ok(<<>>, minor.pos)

verify_header(d, p) ==
    LET magic == read_u32(d, p) IN
    IF ~magic.ok THEN magic
    ELSE IF magic.v # MIR_MAGIC
    THEN Err(MirDeserialize(S("invalid magic: expected 0x") \o Hex8(MIR_MAGIC)
                            \o S(", got 0x") \o Hex8(magic.v)))
    ELSE LET major == read_u16(d, magic.pos) IN
    IF ~major.ok THEN major
    ELSE LET minor == read_u16(d, major.pos) IN
    IF ~minor.ok THEN minor
    ELSE IF major.v # MIR_VERSION_MAJOR
    THEN Err(MirDeserialize(S("version mismatch: expected major ") \o Dec(MIR_VERSION_MAJOR)
                            \o S(", got ") \o Dec(major.v)))
    ELSE Ok(<<>>, minor.pos)

\* MirBinaryReader::new(data).read_module()
read_module(d) ==
    LET h == read_field("header", d, 0) IN
    IF ~h.ok THEN h
    ELSE LET n == read_field("string", d, h.pos) IN
    IF ~n.ok THEN n
    ELSE LET ss == read_counted("struct_def", d, n.pos) IN
    IF ~ss.ok THEN ss
    ELSE LET es == read_counted("enum_def", d, ss.pos) IN
    IF ~es.ok THEN es
    ELSE LET fs == read_counted("function", d, es.pos) IN
    IF ~fs.ok THEN fs
    ELSE LET cs == read_counted("named_constant", d, fs.pos) IN
    IF ~cs.ok THEN cs
    ELSE Ok([name |-> n.v, structs |-> ss.v, enums |-> es.v, functions |-> fs.v,
             constants |-> cs.v], cs.pos)

\* What the reader reads next: every read of the reader goes through this one
\* operator, named by what is read.
read_field(f, d, p) ==
    CASE f = "u8" -> read_u8(d, p)
      [] f = "bool" -> read_bool(d, p)
      [] f = "u32" -> read_u32(d, p)
      [] f = "u64" -> read_u64(d, p)
      [] f = "i64" -> read_i64(d, p)
      [] f = "f64" -> read_f64(d, p)
      [] f = "string" -> read_string(d, p)
      [] f = "value" -> read_value(d, p)
      [] f = "type" -> read_type(d, p)
      [] f = "primitive" -> read_primitive(d, p)
      [] f = "types" -> read_counted("type", d, p)
      [] f = "values" -> read_counted("value", d, p)
      [] f = "u32s" -> read_counted("u32", d, p)
      [] f = "strings" -> read_counted("string", d, p)
      [] f = "u32_pair_value" -> read_u32_pair_value(d, p)
      [] f = "incoming" -> read_counted("u32_pair_value", d, p)
      [] f = "case" -> read_case(d, p)
      [] f = "cases" -> read_counted("case", d, p)
      [] f = "capture" -> read_capture(d, p)
      [] f = "cap_type" -> read_cap_type(d, p)
      [] f = "binop" -> from_u8(BinOp, d, p, S("unknown binary op"))
      [] f = "unaryop" -> from_u8(UnaryOp, d, p, S("unknown unary op"))
      [] f = "castkind" -> from_u8(CastKind, d, p, S("unknown cast kind"))
      [] f = "constant_value" -> read_constant_value(d, p)
      [] f = "closure_init" -> read_closure_init(d, p)
      [] f = "instruction" -> read_instruction(d, p)
      [] f = "return" -> read_return(d, p)
      [] f = "terminator" -> read_terminator(d, p)
      [] f = "block" -> read_block(d, p)
      [] f = "param" -> read_param(d, p)
      [] f = "function" -> read_function(d, p)
      [] f = "struct_field" -> read_struct_field(d, p)
      [] f = "struct_def" -> read_struct_def(d, p)
      [] f = "enum_variant" -> read_enum_variant(d, p)
      [] f = "enum_def" -> read_enum_def(d, p)
      [] f = "named_constant" -> read_named_constant(d, p)
      [] f = "header" -> verify_header(d, p)
      [] f = "module" -> read_module(d)

-----------------------------------------------------------------------------
(* types.rs: MIR types -> Cranelift types.  An Option is a sequence of    *)
(* length 0 (None) or 1 (Some).                                            *)

POINTER_TYPE == "I64"

primitive_to_cranelift(prim) ==
    CASE prim = "Unit" -> <<>>
      [] prim = "Bool" -> <<"I8">>
      [] prim \in {"I8", "U8"} -> <<"I8">>
      [] prim \in {"I16", "U16"} -> <<"I16">>
      [] prim \in {"I32", "U32"} -> <<"I32">>
      [] prim \in {"I64", "U64"} -> <<"I64">>
      [] prim \in {"I128", "U128"} -> <<"I128">>
      [] prim = "F32" -> <<"F32">>
      [] prim = "F64" -> <<"F64">>
      [] prim \in {"Ptr", "Str"} -> <<POINTER_TYPE>>

mir_type_to_cranelift(ty) ==
    IF ty.k = "Primitive" THEN primitive_to_cranelift(ty.prim) ELSE <<POINTER_TYPE>>

\* cranelift_codegen::ir::Type::{bits, bytes, is_int}
bits(ty) ==
    CASE ty = "I8" -> 8
      [] ty = "I16" -> 16
      [] ty \in {"I32", "F32"} -> 32
      [] ty \in {"I64", "F64"} -> 64
      [] ty = "I128" -> 128

bytes(ty) == bits(ty) \div 8

is_int(ty) == ty \in {"I8", "I16", "I32", "I64", "I128"}

is_float(ty) == ty \in {"F32", "F64"}

\* u32 arithmetic.  A u32 is kept as two 16-bit halves, with a mark `o` that
\* names the first operation on the way to it that left the range of u32
\* (none: <<>>): a build with overflow checks panics there, a build without
\* them goes on with the wrapped value.
Half == 65536
u32(n) == [hi |-> n \div Half, lo |-> n % Half, o |-> <<>>]      \* of n < 2^31
first_of(a, b, o) == IF a.o # <<>> THEN a.o ELSE IF b.o # <<>> THEN b.o ELSE o
bits_of(x) == <<x.hi, x.lo>>
is_zero(x) == x.hi = 0 /\ x.lo = 0

\* `size as u32` of a u64 given by its eight bytes: the low four bytes
as_u32(word) == [hi |-> word[3] + (256 * word[4]), lo |-> word[1] + (256 * word[2]), o |-> <<>>]

\* a + b
u32_add(a, b) ==
    LET lo == a.lo + b.lo
        hi == a.hi + b.hi + (lo \div Half)
    IN  [hi |-> hi % Half, lo |-> lo % Half,
         o |-> first_of(a, b, IF hi >= Half THEN <<"add">> ELSE <<>>)]

\* a - 1
u32_pred(a) ==
    IF a.lo > 0 THEN [a EXCEPT !.lo = @ - 1]
    ELSE IF a.hi > 0 THEN [a EXCEPT !.hi = @ - 1, !.lo = Half - 1]
    ELSE [hi |-> Half - 1, lo |-> Half - 1, o |-> first_of(a, a, <<"subtract">>)]

\* a * b, byte by byte
u32_mul(a, b) ==
    LET x == <<a.lo % 256, a.lo \div 256, a.hi % 256, a.hi \div 256>>
        y == <<b.lo % 256, b.lo \div 256, b.hi % 256, b.hi \div 256>>
        k0 == x[1] * y[1]
        k1 == (k0 \div 256) + (x[1] * y[2]) + (x[2] * y[1])
        k2 == (k1 \div 256) + (x[1] * y[3]) + (x[2] * y[2]) + (x[3] * y[1])
        k3 == (k2 \div 256) + (x[1] * y[4]) + (x[2] * y[3]) + (x[3] * y[2]) + (x[4] * y[1])
        beyond == \E i \in 1..4, j \in 1..4 : i + j > 5 /\ x[i] * y[j] > 0
    IN  [hi |-> (k2 % 256) + (256 * (k3 % 256)), lo |-> (k0 % 256) + (256 * (k1 % 256)),
         o |-> first_of(a, b, IF beyond \/ k3 >= 256 THEN <<"multiply">> ELSE <<>>)]

\* a <= b
u32_le(a, b) == a.hi < b.hi \/ (a.hi = b.hi /\ a.lo <= b.lo)

\* a.max(b)
u32_max(a, b) == IF u32_le(a, b) THEN [b EXCEPT !.o = first_of(a, b, <<>>)] ELSE a

\* types.rs align_to: (value + alignment - 1) & !(alignment - 1); the
\* alignments of MIR types are 1, 2, 4, 8 and 16.
align_to(value, alignment) ==
    IF alignment = 0 THEN value
    ELSE LET up == u32_pred(u32_add(value, u32(alignment)))
         IN  [up EXCEPT !.lo = @ - (@ % alignment)]

\* types.rs type_alignment
RECURSIVE type_alignment(_)
type_alignment(ty) ==
    CASE ty.k = "Primitive" ->
           (CASE ty.prim \in {"Unit", "Bool", "I8", "U8"} -> 1
              [] ty.prim \in {"I16", "U16"} -> 2
              [] ty.prim \in {"I32", "U32", "F32"} -> 4
              [] ty.prim \in {"I64", "U64", "F64", "Ptr", "Str"} -> 8
              [] ty.prim \in {"I128", "U128"} -> 16)
      [] ty.k \in {"Pointer", "Slice", "Function"} -> 8
      [] ty.k = "Array" -> type_alignment(ty.element)
      [] ty.k = "Tuple" ->
           LET step(a, i) == Max(a, type_alignment(ty.elements[i]))
           IN  IF ty.elements = <<>> THEN 1
               ELSE fold(step, type_alignment(ty.elements[1]), 1, Len(ty.elements))
      [] ty.k \in {"Struct", "Enum"} -> 8

\* types.rs type_size
RECURSIVE type_size(_)
type_size(ty) ==
    CASE ty.k = "Primitive" ->
           (CASE ty.prim = "Unit" -> u32(0)
              [] ty.prim \in {"Bool", "I8", "U8"} -> u32(1)
              [] ty.prim \in {"I16", "U16"} -> u32(2)
              [] ty.prim \in {"I32", "U32", "F32"} -> u32(4)
              [] ty.prim \in {"I64", "U64", "F64", "Ptr", "Str"} -> u32(8)
              [] ty.prim \in {"I128", "U128"} -> u32(16))
      [] ty.k = "Pointer" -> u32(8)
      [] ty.k = "Slice" -> u32(16)
      [] ty.k = "Function" -> u32(8)
      [] ty.k = "Array" -> u32_max(u32_mul(type_size(ty.element), as_u32(ty.size)), u32(1))
      [] ty.k = "Tuple" ->
           LET step(offset, i) ==
                   u32_add(align_to(offset, type_alignment(ty.elements[i])),
                           type_size(ty.elements[i]))
           IN  align_to(fold(step, u32(0), 1, Len(ty.elements)), type_alignment(ty))
      [] ty.k \in {"Struct", "Enum"} -> u32(8)

\* types.rs compute_struct_layout: the offsets and the total size
compute_struct_layout(field_types) ==
    LET step(a, i) ==
            LET at == align_to(a.offset, type_alignment(field_types[i])) IN
            [offsets |-> Append(a.offsets, at),
             offset |-> u32_add(at, type_size(field_types[i])),
             max_align |-> Max(a.max_align, type_alignment(field_types[i]))]
        done == fold(step, [offsets |-> <<>>, offset |-> u32(0), max_align |-> 1],
                     1, Len(field_types))
    IN  [offsets |-> done.offsets, total_size |-> align_to(done.offset, done.max_align)]

-----------------------------------------------------------------------------
(* The backend object module (cranelift_module::Module as implemented by   *)
(* ObjectModule): a table of declarations; a FuncId is the 0-based index   *)
(* of a declaration.                                                       *)

ObjectModule_new == [functions |-> <<>>, data |-> {}]

\* Linkage::merge
Linkage_merge(a, b) ==
    CASE a = "Export" -> "Export"
      [] a = "Local" -> IF b = "Export" THEN "Export" ELSE "Local"
      [] a = "Import" -> b

\* Module::declare_function: a new name gets a new id; a known name has the
\* linkage merged and then the signature compared (IncompatibleSignature).
module_declare_function(m, name, linkage, sig) ==
    LET known == {i \in 1..Len(m.functions) : m.functions[i].name = name} IN
    IF known = {}
    THEN [ok |-> TRUE, id |-> Len(m.functions),
          module |-> [m EXCEPT !.functions =
                         Append(@, [name |-> name, linkage |-> linkage, signature |-> sig,
                                    defined |-> <<>>])]]
    ELSE LET i == CHOOSE j \in known : TRUE
             merged == [m EXCEPT !.functions[i].linkage = Linkage_merge(@, linkage)]
         IN  IF m.functions[i].signature # sig
             THEN [ok |-> FALSE, module |-> merged,
                   err |-> S("Function ") \o name
                           \o S(" signature is incompatible with previous declaration")]
             ELSE [ok |-> TRUE, id |-> i - 1, module |-> merged]

\* Module::define_function(func_id, ctx).  What the code generator does with
\* a body is the backend's business: `fault` says whether this call compiles
\* the body, rejects it, or panics.  body is the index of the MIR function
\* whose body ctx holds.
module_define_function(m, func_id, body, fault) ==
    LET decl == m.functions[func_id + 1] IN
    IF fault.site = "define" /\ fault.kind # "err"
    THEN [ok |-> FALSE, panic |-> <<[type |-> fault.kind, msg |-> fault.msg]>>, module |-> m]
    ELSE IF decl.linkage = "Import"
    THEN [ok |-> FALSE, panic |-> <<>>, module |-> m,
          err |-> S("InvalidImportDefinition(") \o Quoted(decl.name) \o S(")")]
    ELSE IF decl.defined # <<>>
    THEN [ok |-> FALSE, panic |-> <<>>, module |-> m,
          err |-> S("DuplicateDefinition(") \o Quoted(decl.name) \o S(")")]
    ELSE IF fault.site = "define"
    THEN [ok |-> FALSE, panic |-> <<>>, module |-> m,
          err |-> S("Compilation(") \o fault.msg \o S(")")]
    ELSE [ok |-> TRUE, panic |-> <<>>,
          module |-> [m EXCEPT !.functions[func_id + 1].defined = <<body>>]]

\* The symbols the module holds with a given linkage.
Symbols(m, linkage) ==
    {m.functions[i].name : i \in {j \in 1..Len(m.functions) : m.functions[j].linkage = linkage}}

-----------------------------------------------------------------------------
(* translate.rs: ModuleTranslator.  t is the translator:                   *)
(*   module         the backend module                                     *)
(*   func_ids       HashMap<String, FuncId>                                *)
(*   runtime_names  HashSet<String>                                        *)
(*   log            the calls made to the backend and the call sites       *)
(*                  resolved, in order                                     *)
(*   declared       the translator as it was at the end of the declaration *)
(*                  phase (None before)                                    *)
(*   built          per function translated, what its builder held at the  *)
(*                  end of FunctionTranslator::translate                   *)
(*   res            None while running, Some(error or panic) once a step   *)
(*                  has failed                                             *)

\* ModuleTranslator::new: the native ISA; opt_level 0 is "none", any other
\* "speed_and_size"; the target triple is not used.
ModuleTranslator_new(target_triple, opt_level) ==
    [opt_level |-> IF opt_level = 0 THEN "none" ELSE "speed_and_size",
     module |-> ObjectModule_new, func_ids |-> <<>>, struct_defs |-> <<>>,
     enum_defs |-> <<>>, runtime_names |-> {}, log |-> <<>>, declared |-> <<>>,
     built |-> <<>>, res |-> <<>>]

\* HashMap::insert
insert(map, k, v) == (k :> v) @@ map

Fail(t, e) == [t EXCEPT !.res = <<[k |-> "err", err |-> e]>>]
Panic(t, payload) == [t EXCEPT !.res = <<[k |-> "panic", payload |-> payload]>>]

\* The translator has returned early with an error or is unwinding.
Stopped(t) == t.res # <<>>

RuntimeNameList ==
    <<S("print"), S("println"), S("panic"), S("assert_tml"), S("assert_tml_loc"),
      S("print_i32"), S("print_i64"), S("print_f32"), S("print_f64"), S("print_bool"),
      S("print_char"),
      S("str_len"), S("str_eq"), S("str_hash"), S("str_concat"), S("str_concat_opt"),
      S("str_concat_3"), S("str_concat_4"), S("str_concat_n"),
      S("str_substring"), S("str_slice"), S("str_contains"), S("str_starts_with"),
      S("str_ends_with"),
      S("str_to_upper"), S("str_to_lower"), S("str_trim"), S("str_char_at"),
      S("char_to_string"),
      S("time_ms"), S("time_us"), S("time_ns"), S("sleep_ms"), S("sleep_us"),
      S("elapsed_ms"), S("elapsed_us"), S("elapsed_ns"),
      S("mem_alloc"), S("mem_alloc_zeroed"), S("mem_realloc"), S("mem_free"),
      S("mem_copy"), S("mem_move"), S("mem_set"), S("mem_zero"), S("mem_compare"),
      S("mem_eq"),
      S("tml_set_output_suppressed"), S("tml_get_output_suppressed"),
      S("tml_run_should_panic"), S("tml_get_panic_message"),
      S("tml_panic_message_contains")>>

init_runtime_names(t) ==
    [t EXCEPT !.runtime_names = @ \cup {RuntimeNameList[i] : i \in 1..Len(RuntimeNameList)}]

TmlPrefix == S("tml_")

\* ModuleTranslator::resolve_symbol_name
resolve_symbol_name(t, mir_name) ==
    IF starts_with(mir_name, TmlPrefix) THEN mir_name
    ELSE IF mir_name \in t.runtime_names THEN mir_name
    ELSE TmlPrefix \o mir_name

RECURSIVE Sum(_)
Sum(ns) == IF ns = <<>> THEN 0 ELSE Head(ns) + Sum(Tail(ns))

\* Unit parameters have no Cranelift type and are left out.
build_signature(func) ==
    [params |-> Flatten([i \in 1..Len(func.params) |-> mir_type_to_cranelift(func.params[i].ty)]),
     returns |-> mir_type_to_cranelift(func.return_type)]

\* format!("{}${}p{}r{}", symbol_name, sig.params.len(), param_hash, ret_hash)
unique_symbol(symbol_name, sig) ==
    LET param_hash == Sum([i \in 1..Len(sig.params) |-> i * bits(sig.params[i])])
        ret_hash == Sum([i \in 1..Len(sig.returns) |-> bits(sig.returns[i])])
    IN  symbol_name \o S("$") \o Dec(Len(sig.params)) \o S("p") \o Dec(param_hash)
        \o S("r") \o Dec(ret_hash)

\* One entry of the log per call of Module::declare_function: who asked (by:
\* "user" with the index of the MIR function, "runtime", or "call"), what
\* for, and what came back.
Declared(t, by, index, name, linkage, sig, d) ==
    [t EXCEPT !.module = d.module,
              !.log = Append(@, [ev |-> "declare", by |-> by, index |-> index, name |-> name,
                                 linkage |-> linkage, sig |-> sig, ok |-> d.ok,
                                 id |-> IF d.ok THEN d.id ELSE -1])]

\* ModuleTranslator::declare_function; index is the function's place in
\* mir.functions (for the log only).
declare_function(t, func, index) ==
    Let(build_signature(func), LAMBDA sig :
    Let(resolve_symbol_name(t, func.name), LAMBDA symbol_name :
    Let(IF func.is_public \/ func.name = S("main") \/ func.name = S("tml_main")
        THEN "Export" ELSE "Local", LAMBDA linkage :
    Let(module_declare_function(t.module, symbol_name, linkage, sig), LAMBDA d :
    Let(Declared(t, "user", index, symbol_name, linkage, sig, d), LAMBDA t1 :
    IF func.name \in DOMAIN t.func_ids
    THEN IF d.ok
         THEN [t1 EXCEPT !.func_ids = insert(@, func.name, d.id)]
         ELSE
         Let(unique_symbol(symbol_name, sig), LAMBDA unique_sym :
         Let(module_declare_function(t1.module, unique_sym, linkage, sig), LAMBDA u :
         Let(Declared(t1, "user", index, unique_sym, linkage, sig, u), LAMBDA t2 :
         IF u.ok
         THEN [t2 EXCEPT !.func_ids = insert(insert(@, func.name, u.id), unique_sym, u.id)]
         ELSE Fail(t2, Codegen(S("failed to declare function '") \o func.name
                               \o S("' (unique: '") \o unique_sym \o S("'): ") \o u.err)))))
    ELSE IF d.ok
         THEN [t1 EXCEPT !.func_ids =
                  IF symbol_name # func.name
                  THEN insert(insert(@, func.name, d.id), symbol_name, d.id)
                  ELSE insert(@, func.name, d.id)]
         ELSE Fail(t1, Codegen(S("failed to declare function '") \o func.name
                               \o S("' (symbol: '") \o symbol_name \o S("'): ") \o d.err)))))))

\* `for func in &mir.functions { self.declare_function(func)?; }` from index i on
declare_functions(t, functions) ==
    LET step(a, i) == declare_function(a, functions[i], i - 1)
    IN  try_fold(step, Stopped, t, 1, Len(functions))

\* The runtime ABI: (name, params, ret)
rt_funcs ==
    LET P == POINTER_TYPE IN
    << <<S("print"), <<P>>, <<>> >>,
       <<S("println"), <<P>>, <<>> >>,
       <<S("panic"), <<P>>, <<>> >>,
       <<S("assert_tml"), <<"I32", P>>, <<>> >>,
       <<S("assert_tml_loc"), <<"I32", P, P, "I32">>, <<>> >>,
       <<S("print_i32"), <<"I32">>, <<>> >>,
       <<S("print_i64"), <<"I64">>, <<>> >>,
       <<S("print_f32"), <<"F32">>, <<>> >>,
       <<S("print_f64"), <<"F64">>, <<>> >>,
       <<S("print_bool"), <<"I32">>, <<>> >>,
       <<S("print_char"), <<"I32">>, <<>> >>,
       <<S("str_len"), <<P>>, <<"I32">> >>,
       <<S("str_eq"), <<P, P>>, <<"I32">> >>,
       <<S("str_hash"), <<P>>, <<"I32">> >>,
       <<S("str_concat"), <<P, P>>, <<P>> >>,
       <<S("str_concat_opt"), <<P, P>>, <<P>> >>,
       <<S("str_concat_3"), <<P, P, P>>, <<P>> >>,
       <<S("str_concat_4"), <<P, P, P, P>>, <<P>> >>,
       <<S("str_concat_n"), <<P, "I64">>, <<P>> >>,
       <<S("str_substring"), <<P, "I32", "I32">>, <<P>> >>,
       <<S("str_slice"), <<P, "I64", "I64">>, <<P>> >>,
       <<S("str_contains"), <<P, P>>, <<"I32">> >>,
       <<S("str_starts_with"), <<P, P>>, <<"I32">> >>,
       <<S("str_ends_with"), <<P, P>>, <<"I32">> >>,
       <<S("str_to_upper"), <<P>>, <<P>> >>,
       <<S("str_to_lower"), <<P>>, <<P>> >>,
       <<S("str_trim"), <<P>>, <<P>> >>,
       <<S("str_char_at"), <<P, "I32">>, <<"I32">> >>,
       <<S("char_to_string"), <<"I8">>, <<P>> >>,
       <<S("time_ms"), <<>>, <<"I32">> >>,
       <<S("time_us"), <<>>, <<"I64">> >>,
       <<S("time_ns"), <<>>, <<"I64">> >>,
       <<S("sleep_ms"), <<"I32">>, <<>> >>,
       <<S("sleep_us"), <<"I64">>, <<>> >>,
       <<S("elapsed_ms"), <<"I32">>, <<"I32">> >>,
       <<S("elapsed_us"), <<"I64">>, <<"I64">> >>,
       <<S("elapsed_ns"), <<"I64">>, <<"I64">> >>,
       <<S("mem_alloc"), <<"I64">>, <<P>> >>,
       <<S("mem_alloc_zeroed"), <<"I64">>, <<P>> >>,
       <<S("mem_realloc"), <<P, "I64">>, <<P>> >>,
       <<S("mem_free"), <<P>>, <<>> >>,
       <<S("mem_copy"), <<P, P, "I64">>, <<>> >>,
       <<S("mem_move"), <<P, P, "I64">>, <<>> >>,
       <<S("mem_set"), <<P, "I32", "I64">>, <<>> >>,
       <<S("mem_zero"), <<P, "I64">>, <<>> >>,
       <<S("mem_compare"), <<P, P, "I64">>, <<"I32">> >>,
       <<S("mem_eq"), <<P, P, "I64">>, <<"I32">> >>,
       <<S("tml_set_output_suppressed"), <<"I32">>, <<>> >>,
       <<S("tml_get_output_suppressed"), <<>>, <<"I32">> >>,
       <<S("tml_run_should_panic"), <<P>>, <<"I32">> >>,
       <<S("tml_get_panic_message"), <<>>, <<P>> >>,
       <<S("tml_panic_message_contains"), <<P>>, <<"I32">> >> >>

\* (variant: the runtime ABI declared with Local linkage)
declare_runtime_function_local(t, rt) ==
    LET name == rt[1]
        sig == [params |-> rt[2], returns |-> rt[3]]
        d == module_declare_function(t.module, name, "Local", sig)
        t1 == Declared(t, "runtime", -1, name, "Local", sig, d)
    IN  IF name \in DOMAIN t.func_ids THEN t
        ELSE IF d.ok THEN [t1 EXCEPT !.func_ids = insert(@, name, d.id)]
        ELSE Fail(t1, Codegen(S("failed to declare runtime function '") \o name
                              \o S("': ") \o d.err))

\* One turn of the loop of declare_runtime_functions.
declare_runtime_function(t, rt) ==
    LET name == rt[1]
        sig == [params |-> rt[2], returns |-> rt[3]]
        d == module_declare_function(t.module, name, "Import", sig)
        t1 == Declared(t, "runtime", -1, name, "Import", sig, d)
    IN  IF name \in DOMAIN t.func_ids THEN t     \* Already declared as a user function
        ELSE IF d.ok THEN [t1 EXCEPT !.func_ids = insert(@, name, d.id)]
        ELSE Fail(t1, Codegen(S("failed to declare runtime function '") \o name
                              \o S("': ") \o d.err))

declare_runtime_functions(t) ==
    LET step(a, i) == declare_runtime_function(a, rt_funcs[i])
    IN  try_fold(step, Stopped, t, 1, Len(rt_funcs))

-----------------------------------------------------------------------------
(* translate.rs: FunctionTranslator.  f is the per-function state:        *)
(*   t            the module translator's state it borrows                 *)
(*   func, index  the MIR function and its place in mir.functions          *)
(*   values       MIR value id -> the Cranelift type of the value bound    *)
(*   value_types  the types inferred by the pre-pass                       *)
(*   blocks       HashMap MIR block id -> Cranelift block                  *)
(*   string_data  the string constants already emitted                     *)
(*   phi_info     HashMap MIR block id -> the phis of the block            *)
(* and, of the function under construction in the builder:                 *)
(*   created      per Cranelift block, the MIR block id it was created for *)
(*   block_params per Cranelift block, its parameters in order             *)
(*   sealed       per Cranelift block, how often it was sealed             *)
(*   bound        MIR value id -> the block parameter (block, place) it    *)
(*                was bound to                                             *)
(*   jumps        the jumps and brif arms emitted, with their arguments    *)
(* The instructions the builder emits are not kept: of a Cranelift value   *)
(* the model keeps its type, which is what the coercions branch on.        *)

FunctionTranslator_new(t, func, index) ==
    [t |-> t, func |-> func, index |-> index, values |-> <<>>, value_types |-> <<>>,
     blocks |-> <<>>, string_data |-> {}, phi_info |-> <<>>, created |-> <<>>,
     block_params |-> <<>>, sealed |-> <<>>, bound |-> <<>>, jumps |-> <<>>,
     alloca_slots |-> <<>>, slots |-> <<>>, addrs |-> <<>>, mem |-> <<>>, zeros |-> <<>>,
     rets |-> <<>>, layouts |-> <<>>, cur |-> <<>>, overflow_checks |-> FALSE]

\* The function translator of a build with or without overflow checks.
Checked(f, fault) == [f EXCEPT !.overflow_checks = fault.site = "overflow"]

\* HashMap::get
get(map, k) == IF k \in DOMAIN map THEN <<map[k]>> ELSE <<>>

\* (variant: a resolver that does not consult the runtime names)
ftx_resolve_prefix_only(f, mir_name) ==
    IF starts_with(mir_name, TmlPrefix) THEN mir_name ELSE TmlPrefix \o mir_name

\* FunctionTranslator::resolve_symbol_name
ftx_resolve_symbol_name(f, mir_name) ==
    IF starts_with(mir_name, TmlPrefix) THEN mir_name
    ELSE IF mir_name \in f.t.runtime_names THEN mir_name
    ELSE TmlPrefix \o mir_name

\* All the instructions of a function, block after block.
AllInstructions(func) == Flatten([b \in 1..Len(func.blocks) |-> func.blocks[b].instructions])

int_of_width(bit_width) ==
    CASE bit_width = 8 -> "I8"
      [] bit_width = 16 -> "I16"
      [] bit_width = 32 -> "I32"
      [] bit_width = 64 -> "I64"
      [] bit_width = 128 -> "I128"
      [] OTHER -> "I64"

\* The wider of two integer types, the left one when they are as wide.
wider(lt, rt) == IF bytes(lt) >= bytes(rt) THEN lt ELSE rt

\* `match (l, r)` of the pre-pass for Binary and Select
merge_types(l, r) ==
    IF l # <<>> /\ r # <<>> /\ is_int(l[1]) /\ is_int(r[1]) THEN <<wider(l[1], r[1])>>
    ELSE IF l # <<>> THEN l
    ELSE r

\* The result type the pre-pass infers for one instruction (None: no entry).
inferred_ty(inst, vt, alloca_types) ==
    LET i == inst.inst IN
    CASE i.tag = "Constant" ->
           (CASE i.c.k = "Int" -> <<int_of_width(i.c.bit_width)>>
              [] i.c.k = "Float" -> IF i.c.is_f64 THEN <<"F64">> ELSE <<"F32">>
              [] i.c.k = "Bool" -> <<"I8">>
              [] i.c.k = "String" -> <<POINTER_TYPE>>
              [] i.c.k = "Unit" -> <<>>)
      [] i.tag = "Binary" ->
           IF i.op \in {"Eq", "Ne", "Lt", "Le", "Gt", "Ge"} THEN <<"I8">>
           ELSE merge_types(get(vt, i.left.id), get(vt, i.right.id))
      [] i.tag = "Unary" -> get(vt, i.operand.id)
      [] i.tag \in {"Call", "MethodCall"} -> mir_type_to_cranelift(i.return_type)
      [] i.tag = "Cast" -> mir_type_to_cranelift(i.target_type)
      [] i.tag = "Select" -> merge_types(get(vt, i.true_val.id), get(vt, i.false_val.id))
      [] i.tag = "Alloca" -> <<POINTER_TYPE>>
      [] i.tag = "Load" ->
           IF get(alloca_types, i.ptr.id) # <<>> THEN get(alloca_types, i.ptr.id) ELSE <<"I64">>
      [] i.tag = "Store" -> <<>>
      [] i.tag \in {"Gep", "InsertValue", "StructInit", "EnumInit", "TupleInit", "ArrayInit"} ->
           <<POINTER_TYPE>>
      [] i.tag = "ExtractValue" -> <<"I64">>
      [] i.tag = "Phi" ->
           LET known == {n \in 1..Len(i.incoming) : i.incoming[n][1].id \in DOMAIN vt} IN
           IF known = {} THEN <<>>
           ELSE <<vt[i.incoming[CHOOSE n \in known : \A o \in known : n <= o][1].id]>>
      [] OTHER -> <<"I64">>

param_types(params, vt) ==
    LET step(a, i) == LET ty == mir_type_to_cranelift(params[i].ty) IN
                      IF ty # <<>> THEN insert(a, params[i].value_id, ty[1]) ELSE a
    IN  fold(step, vt, 1, Len(params))

alloca_pass(insts, at) ==
    LET step(a, i) ==
            LET ty == IF insts[i].inst.tag = "Alloca"
                      THEN mir_type_to_cranelift(insts[i].inst.alloc_type) ELSE <<>>
            IN  IF ty # <<>> THEN insert(a, insts[i].result, ty[1]) ELSE a
    IN  fold(step, at, 1, Len(insts))

infer_pass(insts, vt, at) ==
    LET step(a, i) == LET ty == inferred_ty(insts[i], a, at) IN
                      IF ty # <<>> THEN insert(a, insts[i].result, ty[1]) ELSE a
    IN  fold(step, vt, 1, Len(insts))

collect_value_types(f) ==
    LET insts == AllInstructions(f.func) IN
    [f EXCEPT !.value_types =
        infer_pass(insts, param_types(f.func.params, @), alloca_pass(insts, <<>>))]

\* get_value: the type of the Cranelift value a MIR value stands for; an
\* unbound value is a zero of the inferred type.  (Value ids stay below
\* u32::MAX here, so the sentinel branch is not taken.)
get_value(f, val) ==
    IF val.id \in DOMAIN f.values THEN f.values[val.id]
    ELSE LET fallback_ty == IF val.id \in DOMAIN f.value_types
                            THEN f.value_types[val.id] ELSE "I64"
         IN  IF is_int(fallback_ty) \/ is_float(fallback_ty) THEN fallback_ty ELSE "I64"

\* self.values.insert(id, v) of a value that is not the address of a slot
Bind(f, id, ty) ==
    [f EXCEPT !.values = insert(@, id, ty),
              !.addrs = IF id \in DOMAIN @ THEN insert(@, id, <<>>) ELSE @]
FStopped(f) == Stopped(f.t)
FFail(f, e) == [f EXCEPT !.t = Fail(@, e)]
FPanic(f, payload) == [f EXCEPT !.t = Panic(@, payload)]

\* translate_binary: the operands are brought to one type; a comparison
\* yields I8; a float remainder is refused.
translate_binary(f, op, lhs_ty, rhs_ty) ==
    LET lhs_is_float == is_float(lhs_ty)
        rhs_is_float == is_float(rhs_ty)
        ty == IF lhs_ty = rhs_ty THEN lhs_ty
              ELSE IF lhs_is_float /\ rhs_is_float
                   THEN (IF lhs_ty = "F64" THEN "F64" ELSE rhs_ty)
              ELSE IF lhs_is_float THEN lhs_ty
              ELSE IF rhs_is_float THEN rhs_ty
              ELSE IF is_int(lhs_ty) /\ is_int(rhs_ty) THEN wider(lhs_ty, rhs_ty)
              ELSE lhs_ty
    IN  IF op = "Mod" /\ (lhs_is_float \/ rhs_is_float)
        THEN Err(UnsupportedInstruction(S("float modulo not directly supported")))
        ELSE IF op \in {"Eq", "Ne", "Lt", "Le", "Gt", "Ge"} THEN Ok("I8", 0)
        ELSE Ok(ty, 0)

translate_cast(kind, src_ty, target_type) ==
    LET target == mir_type_to_cranelift(target_type)
        target_cl == IF target # <<>> THEN target[1] ELSE "I64"
    IN  IF kind = "IntToPtr" THEN POINTER_TYPE ELSE target_cl

\* translate_string_constant: a new string becomes a Local data object
\* `.str.<function>.<n>` that is declared and defined at once.
translate_string_constant(f, str) ==
    LET name == S(".str.") \o f.func.name \o S(".") \o Dec(Cardinality(f.string_data)) IN
    IF str \in f.string_data THEN f
    ELSE IF name \in f.t.module.data
    THEN FFail(f, Codegen(S("failed to define string data: Duplicate definition of identifier: ")
                          \o name))
    ELSE [f EXCEPT !.t.module.data = @ \cup {name}, !.string_data = @ \cup {str}]

\* (variant: a call site that declares its callee without looking it up)
translate_call_undeclared(f, func_name, args, return_type) ==
    LET symbol_name == ftx_resolve_symbol_name(f, func_name)
        sig == [params |-> [i \in 1..Len(args) |-> "I64"],
                returns |-> mir_type_to_cranelift(return_type)]
        d == module_declare_function(f.t.module, symbol_name, "Import", sig)
        t1 == Declared(f.t, "call", f.index, symbol_name, "Import", sig, d)
        id == IF d.ok THEN d.id ELSE f.t.func_ids[symbol_name]
    IN  [f EXCEPT !.t = [t1 EXCEPT !.log = Append(@, [ev |-> "call", index |-> f.index,
                                                      name |-> func_name, id |-> id])]]

\* translate_call: the callee is looked up under the MIR name, then under the
\* resolved symbol; an unknown callee is declared on the fly as an Import
\* taking one I64 per argument.  Yields the function state and the callee id.
translate_call(f, func_name, args, return_type) ==
    LET Resolved(t, id) ==
            [f EXCEPT !.t = [t EXCEPT !.log = Append(@, [ev |-> "call", index |-> f.index,
                                                         name |-> func_name, id |-> id])]]
    IN
    IF func_name \in DOMAIN f.t.func_ids THEN Resolved(f.t, f.t.func_ids[func_name])
    ELSE
    Let(ftx_resolve_symbol_name(f, func_name), LAMBDA symbol_name :
    IF symbol_name \in DOMAIN f.t.func_ids THEN Resolved(f.t, f.t.func_ids[symbol_name])
    ELSE
    Let([params |-> [i \in 1..Len(args) |-> "I64"],
         returns |-> mir_type_to_cranelift(return_type)], LAMBDA sig :
    Let(module_declare_function(f.t.module, symbol_name, "Import", sig), LAMBDA d :
    Let(Declared(f.t, "call", f.index, symbol_name, "Import", sig, d), LAMBDA t1 :
    IF d.ok
    THEN Resolved([t1 EXCEPT !.func_ids =
                      IF symbol_name # func_name
                      THEN insert(insert(@, func_name, d.id), symbol_name, d.id)
                      ELSE insert(@, func_name, d.id)], d.id)
    ELSE
    Let(unique_symbol(symbol_name, sig), LAMBDA unique_sym :
    Let(module_declare_function(t1.module, unique_sym, "Import", sig), LAMBDA u :
    Let(Declared(t1, "call", f.index, unique_sym, "Import", sig, u), LAMBDA t2 :
    IF u.ok THEN Resolved(t2, u.id)
    ELSE [f EXCEPT !.t = Fail(t2, Codegen(S("failed to declare function '") \o func_name
                                          \o S("' (symbol: '") \o symbol_name
                                          \o S("'): ") \o u.err))])))))))

\* The id the last call site resolved to, and the type of the call's result.
call_result(f) ==
    LET id == f.t.log[Len(f.t.log)].id IN f.t.module.functions[id + 1].signature.returns

\* get_value on each of vals, in the block being emitted: a value that is not
\* bound yet costs a zero constant.
Looked(f, vals) ==
    [f EXCEPT !.zeros = @ \o SelectSeq([n \in 1..Len(vals) |->
                                          [block |-> f.cur, id |-> vals[n].id]],
                                      LAMBDA z : z.id \notin DOMAIN f.values)]

\* What a u32 computation gives the translator: a build with overflow checks
\* panics at the operation that overflowed.
Overflowed(f, x) == f.overflow_checks /\ x.o # <<>>
Overflow(f, x) ==
    FPanic(f, [type |-> "&str", msg |-> S("attempt to ") \o S(x.o[1]) \o S(" with overflow")])

\* create_sized_stack_slot(make_stack_slot(size)); the new slot is the last
make_stack_slot(f, size) == [f EXCEPT !.slots = Append(@, bits_of(size))]

\* stack_addr(POINTER_TYPE, slot, 0) bound to id
BindAddr(f, id, slot) ==
    [f EXCEPT !.values = insert(@, id, POINTER_TYPE), !.addrs = insert(@, id, <<slot>>)]

\* The slot whose address (at offset 0) a MIR value is bound to, if any.
SlotOf(f, val) == IF val.id \in DOMAIN f.addrs THEN f.addrs[val.id] ELSE <<>>

\* A store or a load the builder emits, for the instruction with result `by`.
Mem(f, op, by, ty, slot, offset, field) ==
    [f EXCEPT !.mem = Append(@, [op |-> op, by |-> by, ty |-> ty, slot |-> slot,
                                 offset |-> bits_of(offset), field |-> field])]

\* The stack slot of an aggregate, the newest one.
aggregate(f, size) ==
    IF Overflowed(f, size) THEN Overflow(f, size) ELSE make_stack_slot(f, size)

\* `store v, base` into the newest slot: a discriminant or a function pointer
store_head(f, by, ty) ==
    IF FStopped(f) THEN f ELSE Mem(f, "store", by, ty, <<Len(f.slots)>>, u32(0), <<>>)

\* `store v_i, base + offsets[i]` into the newest slot for each of vals,
\* v_i = get_value(vals[i])
store_each(f, by, vals, offsets) ==
    LET step(a, i) == Mem(Looked(a, <<vals[i]>>), "store", by, get_value(a, vals[i]),
                          <<Len(f.slots)>>, offsets[i], <<i - 1>>)
    IN  IF FStopped(f) THEN f ELSE fold(step, f, 1, Len(vals))

\* The fields of a struct the module does not define lie 8 bytes apart.
translate_struct_init_unknown(f, by, fields) ==
    store_each(aggregate(f, u32_max(u32_mul(u32(Len(fields)), u32(8)), u32(8))), by, fields,
               [i \in 1..Len(fields) |-> u32((i - 1) * 8)])

\* The fields of a struct of the module lie at the offsets of its layout.
translate_struct_init_known(f, by, fields, field_types, layout) ==
    IF Overflowed(f, layout.total_size) THEN Overflow(f, layout.total_size)
    ELSE store_each(aggregate([f EXCEPT !.layouts =
                                    Append(@, [by |-> by, layout |-> layout,
                                               field_types |-> field_types])],
                              u32_max(layout.total_size, u32(8))),
                    by, SubSeq(fields, 1, Min(Len(fields), Len(layout.offsets))),
                    layout.offsets)

field_types_of(field_defs) == [i \in 1..Len(field_defs) |-> field_defs[i].ty]

translate_struct_init(f, by, struct_name, fields) ==
    IF get(f.t.struct_defs, struct_name) = <<>>
    THEN translate_struct_init_unknown(f, by, fields)
    ELSE translate_struct_init_known(
             f, by, fields, field_types_of(get(f.t.struct_defs, struct_name)[1]),
             compute_struct_layout(field_types_of(get(f.t.struct_defs, struct_name)[1])))

translate_enum_init(f, by, enum_name, variant_name, payload) ==
    store_each(store_head(aggregate(f, u32_max(u32_add(u32(8),
                                                       u32_mul(u32(Len(payload)), u32(8))),
                                               u32(8))),
                          by, "I64"),
               by, payload, [i \in 1..Len(payload) |-> u32(8 + ((i - 1) * 8))])

translate_tuple_init(f, by, elements) ==
    store_each(aggregate(f, u32_max(u32_mul(u32(Len(elements)), u32(8)), u32(8))), by,
               elements, [i \in 1..Len(elements) |-> u32((i - 1) * 8)])

translate_array_init(f, by, element_type, elements) ==
    store_each(aggregate(f, u32_max(u32_mul(type_size(element_type), u32(Len(elements))),
                                    u32(8))),
               by, elements,
               [i \in 1..Len(elements) |-> u32_mul(u32(i - 1), type_size(element_type))])

translate_closure_init(f, by, func_name, captures) ==
    store_each(store_head(aggregate(f, u32_max(u32_mul(u32(1 + Len(captures)), u32(8)),
                                               u32(8))),
                          by, POINTER_TYPE),
               by, [i \in 1..Len(captures) |-> captures[i][2]],
               [i \in 1..Len(captures) |-> u32(i * 8)])

\* `offset += idx * 8` over the indices
index_offset(indices) ==
    LET step(offset, i) == u32_add(offset, u32_mul(u32(indices[i]), u32(8)))
    IN  fold(step, u32(0), 1, Len(indices))

translate_extract_value(f, by, agg, indices) ==
    Let(index_offset(indices), LAMBDA offset :
    IF Overflowed(f, offset) THEN Overflow(Looked(f, <<agg>>), offset)
    ELSE Mem(Looked(f, <<agg>>), "load", by, "I64", SlotOf(f, agg), offset, <<>>))

translate_insert_value(f, by, agg, value, indices) ==
    Let(index_offset(indices), LAMBDA offset :
    IF Overflowed(f, offset) THEN Overflow(Looked(f, <<agg, value>>), offset)
    ELSE Mem(Looked(f, <<agg, value>>), "store", by, get_value(f, value), SlotOf(f, agg),
             offset, <<>>))

\* (variant: Alloca with a slot of at least 8 bytes)
translate_alloca_min8(f, result_id, alloc_type) ==
    Let(u32_max(type_size(alloc_type), u32(8)), LAMBDA size :
    IF Overflowed(f, size) THEN Overflow(f, size)
    ELSE Let(make_stack_slot(f, size), LAMBDA g :
         BindAddr([g EXCEPT !.alloca_slots = insert(@, result_id, Len(g.slots))],
                  result_id, Len(g.slots))))

\* Instruction::Alloca
translate_alloca(f, result_id, alloc_type) ==
    Let(type_size(alloc_type), LAMBDA size :
    IF Overflowed(f, size) THEN Overflow(f, size)
    ELSE Let(make_stack_slot(f, size), LAMBDA g :
         BindAddr([g EXCEPT !.alloca_slots = insert(@, result_id, Len(g.slots))],
                  result_id, Len(g.slots))))

\* Instruction::Load
translate_load(f, result_id, ptr) ==
    LET load_ty == IF result_id \in DOMAIN f.value_types THEN f.value_types[result_id]
                   ELSE "I64"
        g == Looked(f, <<ptr>>)
    IN  Bind(IF ptr.id \in DOMAIN f.alloca_slots
             THEN Mem(g, "stack_load", result_id, load_ty, <<f.alloca_slots[ptr.id]>>,
                      u32(0), <<>>)
             ELSE Mem(g, "load", result_id, load_ty, SlotOf(f, ptr), u32(0), <<>>),
             result_id, load_ty)

\* Instruction::Store
translate_store(f, result_id, ptr, value) ==
    LET val_ty == get_value(f, value)
        slot == f.alloca_slots[ptr.id]
        slot_size == f.slots[slot]
        expected_ty == CASE slot_size = bits_of(u32(1)) -> "I8"
                         [] slot_size = bits_of(u32(2)) -> "I16"
                         [] slot_size = bits_of(u32(4)) -> "I32"
                         [] OTHER -> "I64"
    IN  IF ptr.id \in DOMAIN f.alloca_slots
        THEN Mem(Looked(f, <<value>>), "stack_store", result_id,
                 IF val_ty # expected_ty /\ is_int(val_ty) /\ is_int(expected_ty)
                 THEN expected_ty ELSE val_ty,
                 <<slot>>, u32(0), <<>>)
        ELSE Mem(Looked(f, <<value, ptr>>), "store", result_id, val_ty, SlotOf(f, ptr),
                 u32(0), <<>>)

translate_instruction(f, inst_data) ==
    LET result_id == inst_data.result
        i == inst_data.inst
        b == translate_binary(f, i.op, get_value(f, i.left), get_value(f, i.right))
        c == translate_call(Looked(f, i.args), i.func_name, i.args, i.return_type)
        m == translate_call(Looked(f, <<i.receiver>> \o i.args), i.method_name,
                            <<i.receiver>> \o i.args, i.return_type)
        Called(g) == IF g.t.res # <<>> \/ call_result(g) = <<>> THEN g
                     ELSE Bind(g, result_id, call_result(g)[1])
        select_ty == LET tv == get_value(f, i.true_val)
                         fv == get_value(f, i.false_val)
                     IN  IF tv # fv /\ is_int(tv) /\ is_int(fv) THEN wider(tv, fv) ELSE tv
        Made(g) == IF FStopped(g) THEN g ELSE BindAddr(g, result_id, Len(g.slots))
    IN  CASE i.tag = "Constant" ->
               (CASE i.c.k = "Int" -> Bind(f, result_id, int_of_width(i.c.bit_width))
                  [] i.c.k = "Float" -> Bind(f, result_id, IF i.c.is_f64 THEN "F64" ELSE "F32")
                  [] i.c.k = "Bool" -> Bind(f, result_id, "I8")
                  [] i.c.k = "String" ->
                       LET g == translate_string_constant(f, i.c.value) IN
                       IF g.t.res # <<>> THEN g ELSE Bind(g, result_id, POINTER_TYPE)
                  [] i.c.k = "Unit" -> Bind(f, result_id, "I64"))
          [] i.tag = "Binary" ->
               IF b.ok THEN Bind(Looked(f, <<i.left, i.right>>), result_id, b.v)
               ELSE FFail(Looked(f, <<i.left, i.right>>), b.err)
          [] i.tag = "Unary" ->
               Bind(Looked(f, <<i.operand>>), result_id, get_value(f, i.operand))
          [] i.tag = "Alloca" -> translate_alloca(f, result_id, i.alloc_type)
          [] i.tag = "Load" -> translate_load(f, result_id, i.ptr)
          [] i.tag = "Store" -> translate_store(f, result_id, i.ptr, i.value)
          [] i.tag = "Call" -> Called(c)
          [] i.tag = "MethodCall" -> Called(m)
          [] i.tag = "Cast" ->
               Bind(Looked(f, <<i.operand>>), result_id,
                    translate_cast(i.kind, get_value(f, i.operand), i.target_type))
          [] i.tag = "Select" ->
               Bind(Looked(f, <<i.condition, i.true_val, i.false_val>>), result_id, select_ty)
          [] i.tag = "StructInit" ->
               Made(translate_struct_init(f, result_id, i.struct_name, i.fields))
          [] i.tag = "EnumInit" ->
               Made(translate_enum_init(f, result_id, i.enum_name, i.variant_name, i.payload))
          [] i.tag = "TupleInit" -> Made(translate_tuple_init(f, result_id, i.elements))
          [] i.tag = "ArrayInit" ->
               Made(translate_array_init(f, result_id, i.element_type, i.elements))
          [] i.tag = "ClosureInit" ->
               Made(translate_closure_init(f, result_id, i.func_name, i.captures))
          [] i.tag = "Gep" ->
               Bind(Looked(f, <<i.base>> \o i.indices), result_id, POINTER_TYPE)
          [] i.tag = "ExtractValue" ->
               Let(translate_extract_value(f, result_id, i.aggregate, i.indices), LAMBDA g :
                   IF FStopped(g) THEN g ELSE Bind(g, result_id, "I64"))
          [] i.tag = "InsertValue" ->
               Let(translate_insert_value(f, result_id, i.aggregate, i.value, i.indices),
                   LAMBDA g :
                   IF FStopped(g) THEN g
                   ELSE [g EXCEPT !.values = insert(@, result_id, get_value(f, i.aggregate)),
                                  !.addrs = insert(@, result_id, SlotOf(f, i.aggregate))])
          [] i.tag = "Await" ->
               FFail(f, UnsupportedInstruction(S("await not supported in Cranelift backend")))
          [] i.tag = "Phi" -> f

\* `self.blocks[&id]` on a HashMap panics when the key is absent.
NoEntry == [type |-> "String", msg |-> S("no entry found for key")]

\* The phi instructions of a block: (result id, instruction)
Phis(block) ==
    SelectSeq(block.instructions, LAMBDA inst : inst.inst.tag = "Phi")

\* collect_phi_info: the phis of every block that has some, under the
\* block's id.
collect_phi_info(f) ==
    LET step(a, b) ==
            Let(Phis(f.func.blocks[b]), LAMBDA phis :
            IF phis = <<>> THEN a ELSE insert(a, f.func.blocks[b].id, phis))
    IN  [f EXCEPT !.phi_info = fold(step, <<>>, 1, Len(f.func.blocks))]

\* `for block in blocks { let cl_block = create_block(); blocks.insert(block.id, cl_block); }`
\* A backend block is its number in the order of creation.
create_blocks(f) ==
    LET n == Len(f.func.blocks)
        step(a, b) == insert(a, f.func.blocks[b].id, b)
    IN  [f EXCEPT !.blocks = fold(step, <<>>, 1, n),
                  !.created = [b \in 1..n |-> f.func.blocks[b].id],
                  !.block_params = [b \in 1..n |-> <<>>],
                  !.sealed = [b \in 1..n |-> 0]]

\* infer_phi_type: the first phi with this result id whose incoming values
\* include one of known type decides; I64 otherwise.
infer_phi_type(f, result_id) ==
    LET phis == SelectSeq(AllInstructions(f.func),
                          LAMBDA inst : inst.result = result_id /\ inst.inst.tag = "Phi"
                                        /\ inferred_ty(inst, f.value_types, <<>>) # <<>>)
    IN  IF phis = <<>> THEN "I64" ELSE inferred_ty(phis[1], f.value_types, <<>>)[1]

\* append_block_param, and the MIR value bound to the new parameter.  A block
\* parameter is kept as its type and what it was appended for.
BindParam(f, cl_block, id, ty, for) ==
    [f EXCEPT !.block_params[cl_block] = Append(@, [ty |-> ty, for |-> for]),
              !.values = insert(@, id, ty),
              !.bound = insert(@, id, <<cl_block, Len(f.block_params[cl_block]) + 1>>)]

\* The block parameters of the phis recorded under the id of one MIR block.
bind_phis(f, block) ==
    LET cl_block == f.blocks[block.id]
        phis == IF block.id \in DOMAIN f.phi_info THEN f.phi_info[block.id] ELSE <<>>
        step(a, i) == BindParam(a, cl_block, phis[i].result,
                                infer_phi_type(a, phis[i].result), <<"phi", phis[i].result>>)
    IN  fold(step, f, 1, Len(phis))

\* `for block in &self.mir_func.blocks { ... append_block_param ... }`
bind_all_phis(f) ==
    LET step(a, b) == bind_phis(a, a.func.blocks[b])
    IN  fold(step, f, 1, Len(f.func.blocks))

\* append_block_params_for_function_params: one parameter per parameter of
\* the signature.
append_function_params(f, entry_block) ==
    LET sig == build_signature(f.func) IN
    [f EXCEPT !.block_params[entry_block] =
                  @ \o [j \in 1..Len(sig.params) |-> [ty |-> sig.params[j], for |-> <<"abi", j>>]]]

\* The entry block's parameters are its phis, then the signature's
\* parameters; MIR parameter i takes the one at phi_count + i, if any.
bind_params(f, param_vals, phi_count) ==
    LET entry_block == f.blocks[f.func.blocks[1].id]
        step(a, i) == IF phi_count + i <= Len(param_vals)
                      THEN [a EXCEPT
                               !.values = insert(@, a.func.params[i].value_id,
                                                 param_vals[phi_count + i].ty),
                               !.bound = insert(@, a.func.params[i].value_id,
                                                <<entry_block, phi_count + i>>)]
                      ELSE a
    IN  fold(step, f, 1, Len(f.func.params))

\* The argument collect_phi_args passes for one phi of the target block: the
\* MIR value it stands for (none for a zero constant) and its type.
phi_arg(f, incoming, expected_ty, from_block_id) ==
    LET from == {n \in 1..Len(incoming) : incoming[n][2] = from_block_id} IN
    IF from = {}
    THEN [src |-> <<>>, ty |-> IF is_int(expected_ty) THEN expected_ty ELSE "I64"]
    ELSE Let(incoming[CHOOSE n \in from : \A m \in from : n <= m][1].id, LAMBDA val_id :
         IF val_id \in DOMAIN f.values
         THEN Let(f.values[val_id], LAMBDA actual_ty :
              [src |-> <<val_id>>,
               ty |-> IF actual_ty = expected_ty THEN actual_ty
                      ELSE IF is_int(actual_ty) /\ is_int(expected_ty) THEN expected_ty
                      ELSE actual_ty])
         ELSE [src |-> <<>>, ty |-> expected_ty])

collect_phi_args(f, target_block_id, from_block_id) ==
    LET target_params == f.block_params[f.blocks[target_block_id]]
        phis == IF target_block_id \in DOMAIN f.phi_info THEN f.phi_info[target_block_id]
                ELSE <<>>
    IN  [i \in 1..Len(phis) |->
            phi_arg(f, phis[i].inst.incoming,
                    IF i <= Len(target_params) THEN target_params[i].ty ELSE "I64",
                    from_block_id)]

\* A jump or one arm of a brif, with the block arguments it passes.
Jump(f, from_block_id, target) ==
    [f EXCEPT !.jumps = Append(@, [from |-> from_block_id, to |-> target,
                                   args |-> collect_phi_args(f, target, from_block_id)])]

\* Terminator::Return { value: Some(val) }: the operand, coerced to the first
\* return of the signature when there is one.
return_operand(f, val) ==
    LET actual_ty == get_value(f, val)
        returns == build_signature(f.func).returns
    IN  IF returns # <<>> THEN returns[1] ELSE actual_ty

\* return_(&[..]) in the block being emitted
return_(f, operands) == [f EXCEPT !.rets = Append(@, [block |-> f.cur, operands |-> operands])]

translate_terminator(f0, term, current_block_id) ==
    LET targets ==
            CASE term.tag = "Branch" -> {term.target}
              [] term.tag = "CondBranch" -> {term.true_block, term.false_block}
              [] term.tag = "Switch" ->
                   {term.default_block} \cup {term.cases[n][2] : n \in 1..Len(term.cases)}
              [] OTHER -> {}
        f == CASE term.tag = "CondBranch" -> Looked(f0, <<term.condition>>)
               [] term.tag = "Switch" -> Looked(f0, <<term.discriminant>>)
               [] term.tag = "Return" -> Looked(f0, term.value)
               [] OTHER -> f0
    IN  IF ~(targets \subseteq DOMAIN f.blocks) THEN FPanic(f, NoEntry)
        ELSE CASE term.tag = "Branch" -> Jump(f, current_block_id, term.target)
               [] term.tag = "CondBranch" ->
                    Jump(Jump(f, current_block_id, term.true_block),
                         current_block_id, term.false_block)
               [] term.tag = "Return" ->
                    return_(f, [n \in 1..Len(term.value) |-> return_operand(f, term.value[n])])
               [] OTHER -> f

translate_instructions(f, insts) ==
    try_fold(LAMBDA a, i : translate_instruction(a, insts[i]), FStopped, f, 1, Len(insts))

translate_block(f, block) ==
    Let(translate_instructions([f EXCEPT !.cur = block.id], block.instructions), LAMBDA g :
    IF g.t.res # <<>> \/ block.terminator = <<>> THEN g
    ELSE translate_terminator(g, block.terminator[1], block.id))

translate_blocks(f) ==
    try_fold(LAMBDA a, b : translate_block(a, a.func.blocks[b]), FStopped, f,
             1, Len(f.func.blocks))

\* (variant: every block sealed when its terminator is out, and all of them
\* again at the end)
seal_all_blocks_again(f) == [f EXCEPT !.sealed = [b \in DOMAIN @ |-> @[b] + 2]]

seal_all_blocks(f) == [f EXCEPT !.sealed = [b \in DOMAIN @ |-> @[b] + 1]]

\* The entry block of a function that has blocks, and the number of its phis.
entry_block(f) == f.blocks[f.func.blocks[1].id]
entry_phi_count(f) ==
    IF f.func.blocks[1].id \in DOMAIN f.phi_info THEN Len(f.phi_info[f.func.blocks[1].id])
    ELSE 0

\* `builder.seal_all_blocks()` once every block is out
seal_when_done(f) == IF FStopped(f) THEN f ELSE seal_all_blocks(f)

\* From the entry block on: its parameters, the blocks, the sealing.
translate_from_entry(f) ==
    seal_when_done(translate_blocks(bind_params(f, f.block_params[entry_block(f)],
                                                entry_phi_count(f))))

\* What follows the passes over the types and the creation of the blocks.
translate_created(f) ==
    IF f.func.blocks = <<>> THEN f
    ELSE translate_from_entry(append_function_params(f, entry_block(f)))

\* FunctionTranslator::translate
translate(f0) ==
    translate_created(bind_all_phis(create_blocks(collect_phi_info(collect_value_types(f0)))))

\* What the builder holds of a function when translate comes back.
Built(f) ==
    [index |-> f.index, ok |-> ~FStopped(f), created |-> f.created, blocks |-> f.blocks,
     block_params |-> f.block_params, sealed |-> f.sealed, bound |-> f.bound,
     phi_info |-> f.phi_info, jumps |-> f.jumps, value_types |-> f.value_types,
     values |-> f.values, alloca_slots |-> f.alloca_slots, slots |-> f.slots, mem |-> f.mem,
     zeros |-> f.zeros, rets |-> f.rets, addrs |-> f.addrs, layouts |-> f.layouts]

\* The module translator a function translator gives back, with the record
\* of what was built.
Release(f) == [f.t EXCEPT !.built = Append(@, Built(f))]

DefineFaultMsg == S("remove_constant_phis: entry block unknown")

\* (variant: translate_function without the early return for a function
\* that has no blocks)
translate_function_no_skip(t, func, index, fault) ==
    IF func.name \notin DOMAIN t.func_ids
    THEN Fail(t, Translation(S("function '") \o func.name \o S("' not declared")))
    ELSE
    Let(t.func_ids[func.name], LAMBDA func_id :
    Let(Release(translate(Checked(FunctionTranslator_new(t, func, index), fault))), LAMBDA t0 :
    IF t0.res # <<>> THEN t0
    ELSE
    Let(module_define_function(t0.module, func_id, index, fault), LAMBDA d :
    Let([t0 EXCEPT !.module = d.module,
                    !.log = Append(@, [ev |-> "define", index |-> index, id |-> func_id,
                                       ok |-> d.ok])], LAMBDA t1 :
    IF d.ok THEN t1
    ELSE Fail(t1, Codegen(S("failed to define function '") \o func.name \o S("': ")
                          \o (IF d.panic = <<>> THEN d.err ELSE d.panic[1].msg)))))))

\* ModuleTranslator::translate_function
translate_function(t, func, index, fault) ==
    IF func.name \notin DOMAIN t.func_ids
    THEN Fail(t, Translation(S("function '") \o func.name \o S("' not declared")))
    ELSE IF func.blocks = <<>> THEN t
    ELSE
    Let(t.func_ids[func.name], LAMBDA func_id :
    Let(Release(translate(Checked(FunctionTranslator_new(t, func, index), fault))), LAMBDA t0 :
    IF t0.res # <<>> THEN t0
    ELSE
    Let(module_define_function(t0.module, func_id, index, fault), LAMBDA d :
    Let([t0 EXCEPT !.module = d.module,
                    !.log = Append(@, [ev |-> "define", index |-> index, id |-> func_id,
                                       ok |-> d.ok])], LAMBDA t1 :
    IF d.ok THEN t1
    ELSE IF d.panic = <<>>
    THEN Fail(t1, Codegen(S("failed to define function '") \o func.name \o S("': ") \o d.err))
    ELSE Fail(t1, Codegen(S("PANIC in function '") \o func.name \o S("': ")
                          \o (IF d.panic[1].type \in {"&str", "String"} THEN d.panic[1].msg
                              ELSE S("unknown panic"))))))))

\* (variant: phase 2 that takes every function, whatever the list says)
define_bodies_all(t, mir, indices, fault) ==
    LET step(a, n) ==
            LET func == mir.functions[n]
            IN  IF func.name \notin a.defined_funcs
                THEN [t |-> translate_function(a.t, func, n - 1, fault),
                      defined_funcs |-> a.defined_funcs \cup {func.name}]
                ELSE a
    IN  try_fold(step, FStopped, [t |-> t, defined_funcs |-> {}], 1, Len(mir.functions)).t

\* Phase 2 of translate_module: the bodies at `indices`, in that order, each
\* name once.
define_bodies(t, mir, indices, fault) ==
    try_fold(LAMBDA a, n :
                 LET i == indices[n]
                     func == mir.functions[i + 1]
                 IN  IF i < Len(mir.functions) /\ func.name \notin a.defined_funcs
                     THEN [t |-> translate_function(a.t, func, i, fault),
                           defined_funcs |-> a.defined_funcs \cup {func.name}]
                     ELSE a,
             FStopped, [t |-> t, defined_funcs |-> {}], 1, Len(indices)).t

\* `for s in &mir.structs { self.struct_defs.insert(s.name.clone(), s.fields.clone()); }`
collect_defs(map, defs, field) ==
    LET step(a, i) == insert(a, defs[i].name, defs[i][field])
    IN  fold(step, map, 1, Len(defs))

\* The declaration phase shared by translate_module and generate_ir_text.
declare_all(t, mir) ==
    Let([init_runtime_names(t) EXCEPT
            !.struct_defs = collect_defs(@, mir.structs, "fields"),
            !.enum_defs = collect_defs(@, mir.enums, "variants")], LAMBDA t0 :
    Let(declare_functions(t0, mir.functions), LAMBDA t1 :
    IF t1.res # <<>> THEN t1
    ELSE
    Let(declare_runtime_functions(t1), LAMBDA t2 :
    IF t2.res # <<>> THEN t2
    ELSE [t2 EXCEPT !.declared = <<[module |-> t2.module, func_ids |-> t2.func_ids]>>])))

\* ModuleTranslator::translate_module; func_indices is None or Some(list).
translate_module(t, mir, func_indices, fault) ==
    Let(declare_all(t, mir), LAMBDA t1 :
    IF t1.res # <<>> THEN t1
    ELSE
    Let(IF func_indices # <<>> THEN func_indices[1]
        ELSE [n \in 1..Len(mir.functions) |-> n - 1], LAMBDA indices :
    define_bodies(t1, mir, indices, fault)))

\* The UTF-8 bytes of a string.
encode_char(c) ==
    IF c < 128 THEN <<c>>
    ELSE IF c < 2048 THEN <<192 + (c \div 64), 128 + (c % 64)>>
    ELSE IF c < 65536
    THEN <<224 + (c \div 4096), 128 + ((c \div 64) % 64), 128 + (c % 64)>>
    ELSE <<240 + (c \div 262144), 128 + ((c \div 4096) % 64), 128 + ((c \div 64) % 64),
           128 + (c % 64)>>

as_bytes(str) == Flatten([i \in 1..Len(str) |-> encode_char(str[i])])

\* What ObjectProduct::emit writes is the backend's business; of the object
\* file the model keeps that it starts with a file header (it is never empty)
\* and names every declared symbol.
ObjectHeader == <<127, 69, 76, 70>>

emit(m) ==
    ObjectHeader \o Flatten([i \in 1..Len(m.functions) |-> as_bytes(m.functions[i].name) \o <<0>>])

FinishFaultMsg == S("section too large")

\* ModuleTranslator::finish: Ok(bytes), or the translator with the failure.
finish(t, fault) ==
    IF fault.site # "finish" THEN [t |-> t, bytes |-> emit(t.module)]
    ELSE IF fault.kind = "err"
    THEN [t |-> Fail(t, Codegen(S("failed to emit object file: ") \o fault.msg))]
    ELSE [t |-> Panic(t, [type |-> fault.kind, msg |-> fault.msg])]

clif_name(ty) ==
    CASE ty = "I8" -> S("i8") [] ty = "I16" -> S("i16") [] ty = "I32" -> S("i32")
      [] ty = "I64" -> S("i64") [] ty = "I128" -> S("i128") [] ty = "F32" -> S("f32")
      [] ty = "F64" -> S("f64")

RECURSIVE join(_, _)
join(ss, sep) ==
    IF ss = <<>> THEN <<>>
    ELSE IF Len(ss) = 1 THEN ss[1]
    ELSE ss[1] \o sep \o join(Tail(ss), sep)

\* cl_func.display(): the header line of the function, its body elided.
display(func_id, sig) ==
    S("function u0:") \o Dec(func_id) \o S("(")
    \o join([i \in 1..Len(sig.params) |-> clif_name(sig.params[i])], S(", ")) \o S(")")
    \o (IF sig.returns = <<>> THEN <<>> ELSE S(" -> ") \o clif_name(sig.returns[1]))
    \o S(" system_v {") \o NL \o S("}") \o NL

\* The loop of generate_ir_text: every function is translated (none is
\* defined) and printed.
ir_function(a, func, index) ==
    [t |-> Release(translate(FunctionTranslator_new(a.t, func, index))),
     ir_text |-> a.ir_text \o S("; Function: ") \o func.name \o NL
                 \o display(a.t.func_ids[func.name], build_signature(func)) \o NL]

\* `?` on the loop: an error leaves no text behind
ir_or_error(r) == IF Stopped(r.t) THEN [t |-> r.t] ELSE r

ir_functions(t, mir) ==
    ir_or_error(try_fold(LAMBDA a, i : ir_function(a, mir.functions[i], i - 1), FStopped,
                         [t |-> t, ir_text |-> <<>>], 1, Len(mir.functions)))

\* ModuleTranslator::generate_ir_text
generate_ir_text(t, mir) ==
    Let(declare_all(t, mir), LAMBDA t1 :
    IF t1.res # <<>> THEN [t |-> t1] ELSE ir_functions(t1, mir))

-----------------------------------------------------------------------------
(* lib.rs: the C API.  A pointer is NULL, Dangling (the address of an      *)
(* empty Vec, which owns no allocation) or the index of a buffer in heap.  *)

NULL == 0
Dangling == -1

\* A buffer handed to the host: its bytes and how often it was released.
alloc(heap, kind, content) ==
    Append(heap, [kind |-> kind, bytes |-> content, released |-> 0])

\* CString::new(s).unwrap_or_default(): the bytes before the terminator; a
\* string with an interior NUL is refused and the default (empty) is used.
CString_new(str) == IF contains_nul(str) THEN <<>> ELSE as_bytes(str)

success_with_data(data, heap) ==
    [result |-> [success |-> 1,
                 data |-> IF data = <<>> THEN Dangling ELSE Len(heap) + 1,
                 data_len |-> Len(data),
                 ir_text |-> NULL, ir_text_len |-> 0, error_msg |-> NULL],
     heap |-> IF data = <<>> THEN heap ELSE alloc(heap, "Vec", data)]

success_with_ir(ir, heap) ==
    LET cstr == CString_new(ir) IN
    [result |-> [success |-> 1, data |-> NULL, data_len |-> 0,
                 ir_text |-> Len(heap) + 1, ir_text_len |-> Len(cstr),
                 error_msg |-> NULL],
     heap |-> alloc(heap, "CString", cstr)]

\* (variant: an error result that reports success)
error_marked_success(msg, heap) ==
    LET cstr == CString_new(msg) IN
    [result |-> [success |-> 1, data |-> NULL, data_len |-> 0,
                 ir_text |-> NULL, ir_text_len |-> 0,
                 error_msg |-> Len(heap) + 1],
     heap |-> alloc(heap, "CString", cstr)]

error(msg, heap) ==
    LET cstr == CString_new(msg) IN
    [result |-> [success |-> 0, data |-> NULL, data_len |-> 0,
                 ir_text |-> NULL, ir_text_len |-> 0,
                 error_msg |-> Len(heap) + 1],
     heap |-> alloc(heap, "CString", cstr)]

\* `if options.is_null() { CraneliftOptions { 0, null, 0, 0 } } else { ptr::read(options) }`
read_options(options) ==
    IF options = <<>>
    THEN [optimization_level |-> 0, target_triple |-> <<>>, debug_info |-> 0, dll_export |-> 0]
    ELSE options[1]

get_target_triple(opts) == IF opts.target_triple = <<>> THEN <<>> ELSE opts.target_triple[1]


\* The outcome of an impl function: the translator it built (None when the
\* reader failed first) and Ok(value), Err(error) or a panic.
Done(t, r) == [t |-> t, r |-> r]
Finished(t, v) ==
    IF t.res = <<>> THEN Done(<<t>>, [k |-> "ok", v |-> v]) ELSE Done(<<t>>, t.res[1])

compile_mir_impl(mir_data, func_indices, opts, fault) ==
    Let(read_field("module", mir_data, 0), LAMBDA module :
    IF ~module.ok THEN Done(<<>>, [k |-> "err", err |-> module.err])
    ELSE
    Let(Min(Max(opts.optimization_level, 0), 3), LAMBDA opt_level :
    Let(ModuleTranslator_new(get_target_triple(opts), opt_level), LAMBDA translator :
    Let(translate_module(translator, module.v, func_indices, fault), LAMBDA t1 :
    IF t1.res # <<>> THEN Finished(t1, <<>>)
    ELSE
    Let(finish(t1, fault), LAMBDA fin :
    Finished(fin.t, IF fin.t.res = <<>> THEN fin.bytes ELSE <<>>))))))

generate_ir_impl(mir_data, opts) ==
    Let(read_field("module", mir_data, 0), LAMBDA module :
    IF ~module.ok THEN Done(<<>>, [k |-> "err", err |-> module.err])
    ELSE
    Let(Min(Max(opts.optimization_level, 0), 3), LAMBDA opt_level :
    Let(ModuleTranslator_new(get_target_triple(opts), opt_level), LAMBDA translator :
    Let(generate_ir_text(translator, module.v), LAMBDA g :
    Finished(g.t, IF g.t.res = <<>> THEN g.ir_text ELSE <<>>)))))

\* What the closure handed to catch_and_convert does: it returns a result
\* (with the heap as it then is) or unwinds with a panic payload.
Returned(rh, tr_, outcome_) ==
    [panic |-> <<>>, result |-> rh.result, heap |-> rh.heap, tr |-> tr_, outcome |-> outcome_]
Unwound(payload, heap, tr_) ==
    [panic |-> <<payload>>, heap |-> heap, tr |-> tr_,
     outcome |-> [k |-> "panic", payload |-> payload]]

\* `mir_data.is_null() || mir_len == 0`; a pointer is None (null) or
\* Some(bytes) with mir_len = Len(bytes).
null_or_empty(mir_data) == mir_data = <<>> \/ Len(mir_data[1]) = 0

\* The body of cranelift_compile_mir and of cranelift_compile_mir_cgu (which
\* differ in the index list only).
compile_body(mir_data, indices, options, fault, heap) ==
    IF null_or_empty(mir_data)
    THEN Returned(error(S("null or empty MIR data"), heap), <<>>, [k |-> "guard"])
    ELSE
    Let(compile_mir_impl(mir_data[1], indices, read_options(options), fault), LAMBDA r :
    CASE r.r.k = "ok" -> Returned(success_with_data(r.r.v, heap), r.t, r.r)
      [] r.r.k = "err" -> Returned(error(to_string(r.r.err), heap), r.t, r.r)
      [] r.r.k = "panic" -> Unwound(r.r.payload, heap, r.t))

generate_ir_body(mir_data, options, heap) ==
    IF null_or_empty(mir_data)
    THEN Returned(error(S("null or empty MIR data"), heap), <<>>, [k |-> "guard"])
    ELSE
    Let(generate_ir_impl(mir_data[1], read_options(options)), LAMBDA r :
    CASE r.r.k = "ok" -> Returned(success_with_ir(r.r.v, heap), r.t, r.r)
      [] r.r.k = "err" -> Returned(error(to_string(r.r.err), heap), r.t, r.r)
      [] r.r.k = "panic" -> Unwound(r.r.payload, heap, r.t))

\* (variant: a shim that reports the payload without its prefix)
catch_and_convert_bare(b) ==
    LET e == b.panic[1]
        msg == IF e.type \in {"&str", "String"} THEN e.msg
               ELSE S("unknown panic in Cranelift bridge")
    IN  IF b.panic = <<>> THEN b
        ELSE Returned(error(msg, b.heap), b.tr, b.outcome)

\* catch_and_convert: a closure that unwound becomes an error result.
catch_and_convert(b) ==
    LET e == b.panic[1]
        msg == IF e.type \in {"&str", "String"} THEN e.msg
               ELSE S("unknown panic in Cranelift bridge")
    IN  IF b.panic = <<>> THEN b
        ELSE Returned(error(S("PANIC: ") \o msg, b.heap), b.tr, b.outcome)

cranelift_compile_mir(mir_data, options, fault, heap) ==
    catch_and_convert(compile_body(mir_data, <<>>, options, fault, heap))

\* func_indices is None (null) or Some(list) with num_indices = Len(list).
cranelift_compile_mir_cgu(mir_data, func_indices, options, fault, heap) ==
    LET indices == IF func_indices = <<>> \/ Len(func_indices[1]) = 0 THEN <<>>
                   ELSE func_indices
    IN  catch_and_convert(compile_body(mir_data, indices, options, fault, heap))

cranelift_generate_ir(mir_data, options, heap) ==
    catch_and_convert(generate_ir_body(mir_data, options, heap))

release(heap, ptr) == [heap EXCEPT ![ptr].released = @ + 1]

Zeroed ==
    [success |-> 0, data |-> NULL, data_len |-> 0, ir_text |-> NULL, ir_text_len |-> 0,
     error_msg |-> NULL]

\* (variant: a free that leaves the struct as it was)
free_result_not_zeroing(r, heap) ==
    LET h1 == IF r.data # NULL /\ r.data_len > 0 THEN release(heap, r.data) ELSE heap
        h2 == IF r.ir_text # NULL /\ r.ir_text_len > 0 THEN release(h1, r.ir_text) ELSE h1
        h3 == IF r.error_msg # NULL THEN release(h2, r.error_msg) ELSE h2
    IN  [result |-> r, heap |-> h3]

\* cranelift_free_result(&R) for the result R the host holds.
cranelift_free_result(r, heap) ==
    LET h1 == IF r.data # NULL /\ r.data_len > 0 THEN release(heap, r.data) ELSE heap
        h2 == IF r.ir_text # NULL /\ r.ir_text_len > 0 THEN release(h1, r.ir_text) ELSE h1
        h3 == IF r.error_msg # NULL THEN release(h2, r.error_msg) ELSE h2
    IN  [result |-> Zeroed, heap |-> h3]

-----------------------------------------------------------------------------
(* The host's side of the wire: the C++ MirBinaryWriter, which writes what *)
(* the reader reads (little-endian, u32-counted lists, tagged variants).   *)
(* A variant the tables do not know is written with the tag BadTag, which  *)
(* is how the malformed streams with an unknown tag are made.              *)

BadTag == 200

w_u16(n) == <<n % 256, n \div 256>>
w_u32(n) == <<n % 256, (n \div 256) % 256, (n \div 65536) % 256, n \div 16777216>>
w_bool(b) == <<IF b THEN 1 ELSE 0>>
w_string(str) == w_u32(Len(as_bytes(str))) \o as_bytes(str)
w_value(v) == w_u32(v.id)
w_vec(W(_), xs) == w_u32(Len(xs)) \o Flatten([i \in 1..Len(xs) |-> W(xs[i])])

w_tag(table, name) ==
    IF \E i \in 1..Len(table) : table[i] = name
    THEN <<(CHOOSE i \in 1..Len(table) : table[i] = name) - 1>>
    ELSE <<BadTag>>

RECURSIVE w_type(_)
w_type(ty) ==
    CASE ty.k = "Primitive" -> <<0>> \o w_tag(PrimitiveType, ty.prim)
      [] ty.k = "Pointer" -> <<1>> \o w_bool(ty.is_mut) \o w_type(ty.pointee)
      [] ty.k = "Array" -> <<2>> \o ty.size \o w_type(ty.element)
      [] ty.k = "Slice" -> <<3>> \o w_type(ty.element)
      [] ty.k = "Tuple" -> <<4>> \o w_vec(w_type, ty.elements)
      [] ty.k = "Struct" -> <<5>> \o w_string(ty.name) \o w_vec(w_type, ty.type_args)
      [] ty.k = "Enum" -> <<6>> \o w_string(ty.name) \o w_vec(w_type, ty.type_args)
      [] ty.k = "Function" -> <<7>> \o w_vec(w_type, ty.params) \o w_type(ty.return_type)
      [] OTHER -> <<BadTag>>

w_constant(c) ==
    CASE c.k = "Int" -> <<0>> \o c.value \o <<c.bit_width>> \o w_bool(c.is_signed)
      [] c.k = "Float" -> <<1>> \o c.value \o w_bool(c.is_f64)
      [] c.k = "Bool" -> <<2>> \o w_bool(c.value)
      [] c.k = "String" -> <<3>> \o w_string(c.value)
      [] c.k = "Unit" -> <<4>>
      [] OTHER -> <<BadTag>>

w_incoming(pair) == w_value(pair[1]) \o w_u32(pair[2])
w_case(pair) == pair[1] \o w_u32(pair[2])
w_capture(pair) == w_string(pair[1]) \o w_value(pair[2])
w_cap_type(pair) == w_string(pair[1]) \o w_type(pair[2])

w_inst(i) ==
    CASE i.tag = "Binary" -> <<0>> \o w_tag(BinOp, i.op) \o w_value(i.left) \o w_value(i.right)
      [] i.tag = "Unary" -> <<1>> \o w_tag(UnaryOp, i.op) \o w_value(i.operand)
      [] i.tag = "Load" -> <<2>> \o w_value(i.ptr)
      [] i.tag = "Store" -> <<3>> \o w_value(i.ptr) \o w_value(i.value)
      [] i.tag = "Alloca" -> <<4>> \o w_string(i.name) \o w_type(i.alloc_type)
      [] i.tag = "Gep" -> <<5>> \o w_value(i.base) \o w_vec(w_value, i.indices)
      [] i.tag = "ExtractValue" -> <<6>> \o w_value(i.aggregate) \o w_vec(w_u32, i.indices)
      [] i.tag = "InsertValue" ->
           <<7>> \o w_value(i.aggregate) \o w_value(i.value) \o w_vec(w_u32, i.indices)
      [] i.tag = "Call" ->
           <<8>> \o w_string(i.func_name) \o w_vec(w_value, i.args) \o w_type(i.return_type)
      [] i.tag = "MethodCall" ->
           <<9>> \o w_value(i.receiver) \o w_string(i.method_name) \o w_vec(w_value, i.args)
           \o w_type(i.return_type)
      [] i.tag = "Cast" ->
           <<10>> \o w_tag(CastKind, i.kind) \o w_value(i.operand) \o w_type(i.target_type)
      [] i.tag = "Phi" -> <<11>> \o w_vec(w_incoming, i.incoming)
      [] i.tag = "Constant" -> <<12>> \o w_constant(i.c)
      [] i.tag = "Select" ->
           <<13>> \o w_value(i.condition) \o w_value(i.true_val) \o w_value(i.false_val)
      [] i.tag = "StructInit" -> <<14>> \o w_string(i.struct_name) \o w_vec(w_value, i.fields)
      [] i.tag = "EnumInit" ->
           <<15>> \o w_string(i.enum_name) \o w_string(i.variant_name)
           \o w_vec(w_value, i.payload)
      [] i.tag = "TupleInit" -> <<16>> \o w_vec(w_value, i.elements)
      [] i.tag = "ArrayInit" -> <<17>> \o w_type(i.element_type) \o w_vec(w_value, i.elements)
      [] i.tag = "Await" ->
           <<18>> \o w_value(i.poll_value) \o w_type(i.poll_type) \o w_type(i.result_type)
           \o w_u32(i.suspension_id)
      [] i.tag = "ClosureInit" ->
           <<19>> \o w_string(i.func_name) \o w_vec(w_capture, i.captures)
           \o Flatten([n \in 1..Len(i.cap_types) |-> w_cap_type(i.cap_types[n])])
           \o w_type(i.func_type) \o w_type(i.result_type)
      [] OTHER -> <<BadTag>>

w_instruction(inst) == w_u32(inst.result) \o w_inst(inst.inst)

w_terminator(t) ==
    CASE t.tag = "Return" ->
           <<0>> \o w_bool(t.value # <<>>) \o (IF t.value # <<>> THEN w_value(t.value[1]) ELSE <<>>)
      [] t.tag = "Branch" -> <<1>> \o w_u32(t.target)
      [] t.tag = "CondBranch" ->
           <<2>> \o w_value(t.condition) \o w_u32(t.true_block) \o w_u32(t.false_block)
      [] t.tag = "Switch" ->
           <<3>> \o w_value(t.discriminant) \o w_vec(w_case, t.cases) \o w_u32(t.default_block)
      [] t.tag = "Unreachable" -> <<4>>
      [] OTHER -> <<BadTag>>

w_block(b) ==
    w_u32(b.id) \o w_string(b.name) \o w_vec(w_u32, b.predecessors)
    \o w_vec(w_instruction, b.instructions)
    \o w_bool(b.terminator # <<>>)
    \o (IF b.terminator # <<>> THEN w_terminator(b.terminator[1]) ELSE <<>>)

w_param(p) == w_string(p.name) \o w_type(p.ty) \o w_u32(p.value_id)

w_function(f) ==
    w_string(f.name) \o w_bool(f.is_public) \o w_vec(w_param, f.params)
    \o w_type(f.return_type) \o w_vec(w_block, f.blocks)
    \o w_u32(f.next_value_id) \o w_u32(f.next_block_id)

w_struct_field(f) == w_string(f.name) \o w_type(f.ty)
w_struct_def(sd) ==
    w_string(sd.name) \o w_vec(w_string, sd.type_params) \o w_vec(w_struct_field, sd.fields)

w_enum_variant(v) == w_string(v.name) \o w_vec(w_type, v.payload_types)
w_enum_def(e) ==
    w_string(e.name) \o w_vec(w_string, e.type_params) \o w_vec(w_enum_variant, e.variants)

w_named_constant(c) == w_string(c[1]) \o w_constant(c[2])

\* The stream of module m under a given header.
write_module(m, magic, major, minor) ==
    w_u32(magic) \o w_u16(major) \o w_u16(minor)
    \o w_string(m.name) \o w_vec(w_struct_def, m.structs) \o w_vec(w_enum_def, m.enums)
    \o w_vec(w_function, m.functions) \o w_vec(w_named_constant, m.constants)

\* A well-formed stream.
Encode(m) == write_module(m, MIR_MAGIC, MIR_VERSION_MAJOR, 0)

-----------------------------------------------------------------------------
(* The MIR the host compiles: modules of at most MaxFuncs functions drawn  *)
(* from a few families of functions.                                       *)

MaxFuncs == 3       \* functions in a module
MaxIndices == 2     \* indices in a CGU index list
MaxFrees == 2       \* calls of cranelift_free_result on one result
MaxPhiFuncs == 2    \* functions in a module of the phi family
MaxFields == 2      \* fields of a struct

Val(n) == [id |-> n]
Word(n) == <<n, 0, 0, 0, 0, 0, 0, 0>>       \* a small 64-bit value
TyI32 == Primitive("I32")
TyF64 == Primitive("F64")
TyStr == Primitive("Str")
TyUnit == Primitive("Unit")

Param(name, ty, id) == [name |-> name, ty |-> ty, value_id |-> id]
Ret(id) == [tag |-> "Return", value |-> <<Val(id)>>]
RetVoid == [tag |-> "Return", value |-> <<>>]
Block(id, insts, term) ==
    [id |-> id, name |-> S("bb") \o Dec(id), predecessors |-> <<>>, instructions |-> insts,
     terminator |-> <<term>>]
Fn(name, is_public, params, return_type, blocks) ==
    [name |-> name, is_public |-> is_public, params |-> params, return_type |-> return_type,
     blocks |-> blocks, next_value_id |-> 8, next_block_id |-> Len(blocks)]

ConstI32(r, n) ==
    [result |-> r,
     inst |-> [tag |-> "Constant",
               c |-> [k |-> "Int", value |-> Word(n), bit_width |-> 32, is_signed |-> TRUE]]]
CallInst(r, name, args, ret) ==
    [result |-> r,
     inst |-> [tag |-> "Call", func_name |-> name, args |-> args, return_type |-> ret]]

\* Functions that share the MIR name `id`, and a caller.
FamDup ==
    << Fn(S("id"), FALSE, <<Param(S("x"), TyI32, 0)>>, TyI32, <<Block(0, <<>>, Ret(0))>>),
       Fn(S("id"), TRUE, <<Param(S("x"), TyF64, 0)>>, TyF64, <<Block(0, <<>>, Ret(0))>>),
       Fn(S("id"), TRUE, <<Param(S("x"), TyI32, 0)>>, TyI32, <<>>),
       Fn(S("main"), FALSE, <<>>, TyI32,
          <<Block(0, <<ConstI32(1, 7), CallInst(2, S("id"), <<Val(1)>>, TyI32)>>, Ret(2))>>) >>

\* A name that is another function's symbol.
FamAlias ==
    << Fn(S("tml_a"), FALSE, <<Param(S("x"), TyI32, 0)>>, TyI32, <<Block(0, <<>>, Ret(0))>>),
       Fn(S("tml_a"), FALSE, <<Param(S("x"), TyF64, 0)>>, TyF64, <<Block(0, <<>>, Ret(0))>>),
       Fn(S("a"), FALSE, <<Param(S("x"), TyI32, 0)>>, TyI32,
          <<Block(0, <<CallInst(1, S("tml_a"), <<Val(0)>>, TyI32)>>, Ret(1))>>) >>

\* Functions named like the runtime, and callers of the runtime and of a
\* function the module does not have.
FamRuntime ==
    << Fn(S("print"), TRUE, <<Param(S("s"), TyStr, 0)>>, TyUnit, <<Block(0, <<>>, RetVoid)>>),
       Fn(S("set_output_suppressed"), FALSE, <<Param(S("on"), TyI32, 0)>>, TyUnit,
          <<Block(0, <<>>, RetVoid)>>),
       Fn(S("tml_main"), FALSE, <<>>, TyI32,
          <<Block(0, <<ConstI32(1, 7),
                       CallInst(2, S("print"), <<Val(1)>>, TyUnit),
                       CallInst(3, S("ext"), <<Val(1)>>, TyI32),
                       [result |-> 4,
                        inst |-> [tag |-> "MethodCall", receiver |-> Val(1),
                                  method_name |-> S("str_len"), args |-> <<>>,
                                  return_type |-> TyI32]]>>,
                   Ret(3))>>) >>

\* Bodies the translator refuses or panics on, and a name with a NUL in it.
FamFail ==
    << Fn(S("wait"), FALSE, <<>>, TyUnit,
          <<Block(0, <<[result |-> 1,
                        inst |-> [tag |-> "Await", poll_value |-> Val(0), poll_type |-> TyI32,
                                  result_type |-> TyI32, suspension_id |-> 0]]>>,
                   RetVoid)>>),
       Fn(S("jump"), TRUE, <<>>, TyUnit, <<Block(0, <<>>, [tag |-> "Branch", target |-> 9])>>),
       Fn(S("fmod"), FALSE, <<Param(S("x"), TyF64, 0)>>, TyF64,
          <<Block(0, <<[result |-> 1,
                        inst |-> [tag |-> "Binary", op |-> "Mod", left |-> Val(0),
                                  right |-> Val(0)]]>>,
                   Ret(1))>>),
       Fn(<<110, 0>>, FALSE, <<>>, TyUnit, <<Block(0, <<>>, RetVoid)>>) >>

ConstInt(r, bit_width) ==
    [result |-> r,
     inst |-> [tag |-> "Constant",
               c |-> [k |-> "Int", value |-> Word(1), bit_width |-> bit_width,
                      is_signed |-> TRUE]]]
ConstF64(r) ==
    [result |-> r,
     inst |-> [tag |-> "Constant", c |-> [k |-> "Float", value |-> Word(0), is_f64 |-> TRUE]]]
Phi(r, incoming) == [result |-> r, inst |-> [tag |-> "Phi", incoming |-> incoming]]
Br(target) == [tag |-> "Branch", target |-> target]
CondBr(id, true_block, false_block) ==
    [tag |-> "CondBranch", condition |-> Val(id), true_block |-> true_block,
     false_block |-> false_block]

\* Functions whose blocks have phis: a diamond that joins integers of
\* several widths, one that joins an integer and a float, a function with a
\* Unit parameter before an I32 one, a loop, and a loop on the entry block.
FamPhi ==
    << Fn(S("sel"), TRUE, <<Param(S("x"), TyI32, 0)>>, TyI32,
          <<Block(0, <<ConstInt(1, 64), ConstInt(2, 8)>>, CondBr(0, 1, 2)),
            Block(1, <<>>, Br(3)),
            Block(2, <<>>, Br(3)),
            Block(3, <<Phi(5, <<<<Val(0), 1>>, <<Val(1), 2>>>>),
                       Phi(6, <<<<Val(2), 1>>, <<Val(1), 2>>>>),
                       Phi(7, <<<<Val(1), 1>>, <<Val(2), 2>>>>)>>, Ret(5))>>),
       Fn(S("mixf"), FALSE, <<Param(S("x"), TyI32, 0)>>, TyI32,
          <<Block(0, <<ConstF64(1)>>, CondBr(0, 1, 2)),
            Block(1, <<>>, Br(3)),
            Block(2, <<>>, Br(3)),
            Block(3, <<Phi(5, <<<<Val(0), 1>>, <<Val(1), 2>>>>),
                       Phi(6, <<<<Val(1), 1>>, <<Val(1), 2>>>>)>>, Ret(5))>>),
       Fn(S("unit"), FALSE, <<Param(S("u"), TyUnit, 0), Param(S("x"), TyI32, 1)>>, TyI32,
          <<Block(0, <<>>, Ret(1))>>),
       Fn(S("loop"), FALSE, <<Param(S("n"), TyI32, 0)>>, TyI32,
          <<Block(0, <<ConstI32(1, 0)>>, Br(1)),
            Block(1, <<Phi(2, <<<<Val(1), 0>>, <<Val(3), 2>>>>)>>, CondBr(2, 2, 3)),
            Block(2, <<[result |-> 3,
                        inst |-> [tag |-> "Binary", op |-> "Add", left |-> Val(2),
                                  right |-> Val(0)]]>>, Br(1)),
            Block(3, <<>>, Ret(2))>>),
       Fn(S("spin"), FALSE, <<Param(S("x"), TyI32, 0)>>, TyUnit,
          <<Block(0, <<Phi(2, <<<<Val(0), 0>>>>)>>, CondBr(2, 0, 1)),
            Block(1, <<>>, RetVoid)>>) >>

Families == {FamDup, FamAlias, FamRuntime, FamFail}

\* The sequences of at most n members of a family.
SeqsUpTo(family, n) ==
    UNION {{[i \in 1..k |-> family[pick[i]]] : pick \in [1..k -> 1..Len(family)]} : k \in 0..n}

Module(functions) ==
    [name |-> S("m"), structs |-> <<>>, enums |-> <<>>, functions |-> functions,
     constants |-> <<>>]

Modules ==
    {Module(fs) : fs \in UNION {SeqsUpTo(fam, MaxFuncs) : fam \in Families}
                          \cup SeqsUpTo(FamPhi, MaxPhiFuncs)}

\* A module that has one of everything the reader reads; `bad` names the
\* place (or "none") where a variant unknown to the tables is written.
Inst(r, inst) == [result |-> r, inst |-> inst]
Known(bad, place, v) == IF bad = place THEN "Bad" ELSE v

RichFunction(bad) ==
    Fn(S("rich"), TRUE,
       <<Param(S("p"), [k |-> Known(bad, "type", "Pointer"), is_mut |-> TRUE, pointee |-> TyI32], 0),
         Param(S("q"), Primitive(Known(bad, "primitive", "I64")), 1)>>,
       TyI32,
       <<Block(0,
               <<ConstI32(2, 5),
                 Inst(3, [tag |-> "Constant",
                          c |-> [k |-> Known(bad, "constant", "Float"), value |-> Word(0),
                                 is_f64 |-> TRUE]]),
                 Inst(4, [tag |-> "Constant", c |-> [k |-> "String", value |-> S("hi")]]),
                 Inst(5, [tag |-> "Binary", op |-> Known(bad, "binop", "Add"),
                          left |-> Val(2), right |-> Val(2)]),
                 Inst(6, [tag |-> "Unary", op |-> Known(bad, "unaryop", "Neg"),
                          operand |-> Val(5)]),
                 Inst(7, [tag |-> "Cast", kind |-> Known(bad, "castkind", "SExt"),
                          operand |-> Val(6), target_type |-> Primitive("I64")]),
                 Inst(8, [tag |-> Known(bad, "instruction", "Select"), condition |-> Val(2),
                          true_val |-> Val(5), false_val |-> Val(6)])>>,
               [tag |-> Known(bad, "terminator", "CondBranch"), condition |-> Val(2),
                true_block |-> 1, false_block |-> 2]),
         Block(1, <<>>, Ret(5)),
         Block(2, <<Inst(9, [tag |-> "Phi", incoming |-> <<<<Val(5), 0>>>>])>>,
               [tag |-> "Switch", discriminant |-> Val(9), cases |-> <<<<Word(1), 1>>>>,
                default_block |-> 1])>>)

Rich(bad) ==
    [name |-> S("rich"),
     structs |-> <<[name |-> S("Pt"), type_params |-> <<S("T")>>,
                    fields |-> <<[name |-> S("x"), ty |-> TyI32]>>]>>,
     enums |-> <<[name |-> S("Opt"), type_params |-> <<>>,
                  variants |-> <<[name |-> S("Some"), payload_types |-> <<TyI32>>]>>]>>,
     functions |-> <<RichFunction(bad)>>,
     constants |-> <<<<S("K"), [k |-> Known(bad, "named constant", "Bool"), value |-> TRUE]>>>>]

BadPlaces ==
    {"type", "primitive", "constant", "binop", "unaryop", "castkind", "instruction",
     "terminator", "named constant"}

\* The magic as the bytes 'T','M','I','R' read little-endian.
SwappedMagic == 1380535636

Prefix(d, n) == SubSeq(d, 1, n)

-----------------------------------------------------------------------------
(* The calls the host makes.  class says how the input was made.          *)

NoFault == [site |-> "none", kind |-> "none", msg |-> <<>>]

\* The library built with overflow checks (debug assertions): u32 arithmetic
\* that leaves the range panics instead of wrapping.
OverflowChecks == [site |-> "overflow", kind |-> "panic", msg |-> <<>>]

Faults ==
    {[site |-> site, kind |-> kind,
      msg |-> IF site = "define" THEN DefineFaultMsg ELSE FinishFaultMsg] :
        site \in {"define", "finish"}, kind \in {"err", "&str", "String", "other"}}

HostCall(entry, data, indices, options, fault, class) ==
    [entry |-> entry, data |-> data, indices |-> indices, options |-> options,
     fault |-> fault, class |-> class]

Entries == {"compile", "compile_cgu", "generate_ir"}

WellFormedCalls ==
    {HostCall(e, <<Encode(m)>>, <<>>, <<>>, NoFault, "well-formed") :
        e \in {"compile", "generate_ir"}, m \in Modules \cup {Rich("none")}}

IndexLists == UNION {[1..k -> 0..MaxFuncs] : k \in 0..MaxIndices}

CguModules == {Module(<<FamDup[1], FamDup[2], FamDup[4]>>), Module(FamFail)}

CguCalls ==
    {HostCall("compile_cgu", <<Encode(m)>>, ix, <<>>, NoFault, "well-formed") :
        m \in CguModules, ix \in {<<>>} \cup {<<l>> : l \in IndexLists}}

FaultModules == {Module(<<>>), Module(<<FamDup[1]>>), Module(<<FamFail[4]>>)}

FaultCalls ==
    {HostCall(e, <<Encode(m)>>, <<>>, <<>>, fault, "well-formed") :
        e \in {"compile", "compile_cgu"}, m \in FaultModules, fault \in Faults}

OptionsArgs ==
    {<<[optimization_level |-> n, target_triple |-> tt, debug_info |-> 0, dll_export |-> 0]>> :
        n \in {-1, 0, 2, 9}, tt \in {<<>>, <<S("x86_64")>>}}

OptionCalls ==
    {HostCall(e, <<Encode(Module(<<FamDup[1]>>))>>, <<>>, o, NoFault, "well-formed") :
        e \in Entries, o \in OptionsArgs}

TruncationBases == {Encode(Rich("none")), Encode(Module(<<FamDup[4]>>))}

\* Every proper prefix of a well-formed stream, the empty one included.
TruncatedCalls ==
    UNION {{HostCall(e, <<Prefix(d, n)>>, <<>>, <<>>, NoFault, "truncated") :
               e \in Entries, n \in 0..(Len(d) - 1)} : d \in TruncationBases}

WrongMagicCalls ==
    {HostCall(e, <<write_module(Rich("none"), magic, MIR_VERSION_MAJOR, 0)>>, <<>>, <<>>,
              NoFault, "wrong magic") :
        e \in Entries, magic \in {0, SwappedMagic, MIR_MAGIC + 1}}

WrongMajorCalls ==
    {HostCall(e, <<write_module(Rich("none"), MIR_MAGIC, major, minor)>>, <<>>, <<>>,
              NoFault, "wrong major") :
        e \in Entries, major \in {0, 2, 256}, minor \in {0, 1}}

\* The minor version is free.
MinorCalls ==
    {HostCall(e, <<write_module(Rich("none"), MIR_MAGIC, MIR_VERSION_MAJOR, minor)>>, <<>>, <<>>,
              NoFault, "well-formed") :
        e \in Entries, minor \in {1, 65535}}

UnknownTagCalls ==
    {HostCall(e, <<Encode(Rich(bad))>>, <<>>, <<>>, NoFault, "unknown tag") :
        e \in Entries, bad \in BadPlaces}

NullCalls ==
    {HostCall(e, <<>>, <<>>, <<>>, NoFault, "null") : e \in Entries}

Calls ==
    WellFormedCalls \cup CguCalls \cup FaultCalls \cup OptionCalls \cup TruncatedCalls
    \cup WrongMagicCalls \cup WrongMajorCalls \cup MinorCalls \cup UnknownTagCalls
    \cup NullCalls

-----------------------------------------------------------------------------
(* The host: one call of an entry point, then cranelift_free_result on the *)
(* result it got, up to MaxFrees times.                                    *)

Init ==
    /\ phase = "idle"
    /\ call = HostCall("none", <<>>, <<>>, <<>>, NoFault, "none")
    /\ held = Zeroed
    /\ buffers = <<>>
    /\ outcome = [k |-> "none"]
    /\ tr = <<>>
    /\ frees = 0

Return(c, b) ==
    /\ phase' = "returned"
    /\ call' = c
    /\ held' = b.result
    /\ buffers' = b.heap
    /\ outcome' = b.outcome
    /\ tr' = b.tr
    /\ frees' = 0

CompileMir ==
    /\ phase = "idle"
    /\ \E c \in Calls :
          /\ c.entry = "compile"
          /\ Return(c, cranelift_compile_mir(c.data, c.options, c.fault, buffers))

CompileMirCgu ==
    /\ phase = "idle"
    /\ \E c \in Calls :
          /\ c.entry = "compile_cgu"
          /\ Return(c, cranelift_compile_mir_cgu(c.data, c.indices, c.options, c.fault, buffers))

GenerateIr ==
    /\ phase = "idle"
    /\ \E c \in Calls :
          /\ c.entry = "generate_ir"
          /\ Return(c, cranelift_generate_ir(c.data, c.options, buffers))

FreeResult ==
    /\ phase = "returned"
    /\ frees < MaxFrees
    /\ LET f == cranelift_free_result(held, buffers) IN
          /\ held' = f.result
          /\ buffers' = f.heap
    /\ frees' = frees + 1
    /\ UNCHANGED <<phase, call, outcome, tr>>

Next == CompileMir \/ CompileMirCgu \/ GenerateIr \/ FreeResult

Spec == Init /\ [][Next]_vars

-----------------------------------------------------------------------------
(* One function compiled alone: the host hands cranelift_compile_mir a     *)
(* module of a single function, drawn from families that vary the types of *)
(* the values an instruction or terminator meets.                          *)

Scalars == {"I8", "I16", "I32", "I64", "F32", "F64"}

\* gap(c: I32, x: T) -> T: a diamond whose join has a phi that lists block 1
\* but not block 2.
PhiGap(T) ==
    Fn(S("gap"), FALSE, <<Param(S("c"), TyI32, 0), Param(S("x"), Primitive(T), 1)>>,
       Primitive(T),
       <<Block(0, <<>>, CondBr(0, 1, 2)),
         Block(1, <<>>, Br(3)),
         Block(2, <<>>, Br(3)),
         Block(3, <<Phi(5, <<<<Val(1), 1>>>>)>>, Ret(5))>>)

\* A chain of three blocks 0 -> 1 -> 2 listed in a given order: block 1
\* defines r2, block 2 uses it in an instruction and returns the result.
BinaryInst(r, op, l, rt) ==
    [result |-> r, inst |-> [tag |-> "Binary", op |-> op, left |-> Val(l), right |-> Val(rt)]]
ChainBlock(id) ==
    CASE id = 0 -> Block(0, <<>>, Br(1))
      [] id = 1 -> Block(1, <<ConstI32(2, 7)>>, Br(2))
      [] id = 2 -> Block(2, <<BinaryInst(3, "Add", 2, 0)>>, Ret(3))
Chain(order) ==
    Fn(S("chain"), FALSE, <<Param(S("x"), TyI32, 0)>>, TyI32,
       [n \in 1..Len(order) |-> ChainBlock(order[n])])
ChainOrders == {<<0, 1, 2>>, <<0, 2, 1>>}

\* One binary operation on two parameters of the given scalar types.
Bin(op, L, R) ==
    Fn(S("bin"), FALSE, <<Param(S("a"), Primitive(L), 0), Param(S("b"), Primitive(R), 1)>>,
       Primitive(L), <<Block(0, <<BinaryInst(2, op, 0, 1)>>, Ret(2))>>)
BinOps == {"Add", "Lt"}

\* A slot of type A that a parameter of type V is stored to and loaded from.
AllocaInst(r, ty) == [result |-> r, inst |-> [tag |-> "Alloca", name |-> S("s"), alloc_type |-> ty]]
StoreInst(r, ptr, v) == [result |-> r, inst |-> [tag |-> "Store", ptr |-> Val(ptr), value |-> Val(v)]]
LoadInst(r, ptr) == [result |-> r, inst |-> [tag |-> "Load", ptr |-> Val(ptr)]]
Slot(A, V) ==
    Fn(S("slot"), FALSE, <<Param(S("v"), Primitive(V), 0)>>, Primitive(V),
       <<Block(0, <<AllocaInst(1, A), StoreInst(2, 1, 0), LoadInst(3, 1)>>, Ret(3))>>)
\* [i64; 2^29]: 2^32 bytes
BigArray == [k |-> "Array", size |-> <<0, 0, 0, 32, 0, 0, 0, 0>>, element |-> Primitive("I64")]
AllocTypes ==
    {Primitive(p) : p \in {"Unit", "Bool", "I8", "I16", "I32", "I64", "I128", "F32", "F64"}}
    \cup {BigArray}

\* Functions that return their parameter, a unit constant, or nothing.
ConstUnit(r) == [result |-> r, inst |-> [tag |-> "Constant", c |-> [k |-> "Unit"]]]
RetParam(R, V) ==
    Fn(S("ret"), FALSE, <<Param(S("v"), Primitive(V), 0)>>, Primitive(R),
       <<Block(0, <<>>, Ret(0))>>)
RetUnit(R) == Fn(S("ret"), FALSE, <<>>, Primitive(R), <<Block(0, <<ConstUnit(1)>>, Ret(1))>>)
RetNone(R) == Fn(S("ret"), FALSE, <<>>, Primitive(R), <<Block(0, <<>>, RetVoid)>>)
Returners ==
    {RetParam(R, V) : R \in Scalars, V \in Scalars}
    \cup {RetUnit(R) : R \in {"Unit", "I32"}} \cup {RetNone(R) : R \in {"Unit", "I32"}}

FnFunctions ==
    {PhiGap(T) : T \in Scalars} \cup {Chain(o) : o \in ChainOrders} \cup Returners
    \cup {Bin(op, L, R) : op \in BinOps, L \in Scalars, R \in Scalars}
    \cup {Slot(A, V) : A \in AllocTypes, V \in Scalars \cup {"I128"}}
\* A struct P of the given field types, and a function that makes a P and
\* then reads and writes each of its fields by index.
StructInitInst(r, name, fields) ==
    [result |-> r, inst |-> [tag |-> "StructInit", struct_name |-> name, fields |-> fields]]
ExtractValueInst(r, agg, indices) ==
    [result |-> r, inst |-> [tag |-> "ExtractValue", aggregate |-> Val(agg), indices |-> indices]]
InsertValueInst(r, agg, v, indices) ==
    [result |-> r,
     inst |-> [tag |-> "InsertValue", aggregate |-> Val(agg), value |-> Val(v),
               indices |-> indices]]
UseStruct(n) ==
    Fn(S("use"), FALSE, <<Param(S("v"), Primitive("I64"), 0)>>, Primitive("I64"),
       <<Block(0,
               <<StructInitInst(1, S("P"), [i \in 1..n |-> Val(0)])>>
               \o Flatten([i \in 1..n |-> <<ExtractValueInst(2 * i, 1, <<i - 1>>),
                                              InsertValueInst((2 * i) + 1, 1, 0, <<i - 1>>)>>]),
               Ret(0))>>)
\* [i8; 2^31]: 2^31 bytes
HalfArray == [k |-> "Array", size |-> <<0, 0, 0, 128, 0, 0, 0, 0>>, element |-> Primitive("I8")]
FieldTypes == {Primitive("I8"), Primitive("I32"), Primitive("I64"), HalfArray}
FieldLists == UNION {[1..n -> FieldTypes] : n \in 0..MaxFields}
StructModule(field_types) ==
    [name |-> S("m"),
     structs |-> <<[name |-> S("P"), type_params |-> <<>>,
                    fields |-> [i \in 1..Len(field_types) |->
                                   [name |-> S("f") \o Dec(i), ty |-> field_types[i]]]]>>,
     enums |-> <<>>, functions |-> <<UseStruct(Len(field_types))>>, constants |-> <<>>]

FnModules ==
    {Module(<<f>>) : f \in FnFunctions} \cup {StructModule(ft) : ft \in FieldLists}

FnCalls ==
    {HostCall("compile", <<Encode(m)>>, <<>>, <<>>, build, "well-formed") :
        m \in FnModules, build \in {NoFault, OverflowChecks}}

CompileFunction ==
    /\ phase = "idle"
    /\ \E c \in FnCalls :
          Return(c, cranelift_compile_mir(c.data, c.options, c.fault, buffers))

FnNext == CompileFunction

FnSpec == Init /\ [][FnNext]_vars

-----------------------------------------------------------------------------
(* Properties.                                                             *)

ends_with(s, suffix) ==
    Len(s) >= Len(suffix) /\ SubSeq(s, Len(s) - Len(suffix) + 1, Len(s)) = suffix

\* The host holds a result it has not yet given back.
Fresh == phase = "returned" /\ frees = 0

\* The bytes of the error message the host was handed.
ErrorMessage == buffers[held.error_msg].bytes

NonNull == {field \in {"data", "ir_text", "error_msg"} : held[field] # NULL}

\* C1: every result an entry point returns has error_msg non-null exactly
\* when success = 0; a failure has null data and ir_text and zero lengths;
\* exactly one of data, ir_text, error_msg is non-null: data for the compile
\* entry points on success, ir_text for generate_ir on success.
C1_ResultShape ==
    Fresh =>
        /\ held.success \in {0, 1}
        /\ (held.error_msg # NULL) <=> (held.success = 0)
        /\ held.success = 0 =>
              /\ held.data = NULL /\ held.ir_text = NULL
              /\ held.data_len = 0 /\ held.ir_text_len = 0
        /\ Cardinality(NonNull) = 1
        /\ held.success = 1 =>
              NonNull = IF call.entry = "generate_ir" THEN {"ir_text"} ELSE {"data"}

C1_Witness ==
    /\ Fresh /\ call.entry = "generate_ir" /\ held.success = 1
    /\ held.ir_text # NULL /\ held.ir_text_len > 0

MalformedClasses == {"truncated", "wrong magic", "wrong major", "unknown tag"}

IsMirDeserialize == outcome.k = "err" /\ outcome.err.kind = "MirDeserialize"

\* C2 as stated: every truncation of a well-formed stream (the empty input
\* included), every wrong magic, every major version other than 1 and every
\* unknown tag makes cranelift_compile_mir return success = 0 with an error
\* of kind MirDeserialize.
C2_Original ==
    (Fresh /\ call.entry = "compile" /\ call.class \in MalformedClasses) =>
        held.success = 0 /\ IsMirDeserialize

\* C2, amended: the same for every such input that is not empty; the empty
\* input is turned away before the reader runs, with success = 0 and the
\* message "null or empty MIR data", which is no BridgeError.
C2_Malformed ==
    (Fresh /\ call.entry = "compile" /\ call.class \in MalformedClasses) =>
        /\ held.success = 0
        /\ IF Len(call.data[1]) = 0
           THEN outcome.k = "guard" /\ ErrorMessage = as_bytes(S("null or empty MIR data"))
           ELSE IsMirDeserialize
                /\ starts_with(ErrorMessage, as_bytes(S("MIR deserialization error: ")))

C2_Witness ==
    /\ Fresh /\ call.entry = "compile" /\ call.class = "truncated"
    /\ Len(call.data[1]) > 8 /\ held.success = 0 /\ IsMirDeserialize

\* C3: the first cranelift_free_result on a result releases each buffer at
\* most once and leaves every field of the struct zero or null; a later call
\* on the same struct releases nothing, so no buffer is released twice.
C3_FreeOnce ==
    [][frees' = frees + 1 =>
          /\ held' = Zeroed
          /\ \A b \in 1..Len(buffers) :
                /\ buffers'[b].released <= buffers[b].released + 1
                /\ buffers'[b].released <= 1
          /\ frees >= 1 => buffers' = buffers]_vars

C3_Witness ==
    /\ frees = 2 /\ held = Zeroed
    /\ \E b \in 1..Len(buffers) : buffers[b].released = 1

\* C4 as stated: after one cranelift_free_result every buffer that was
\* allocated and handed to the host for the result has been released.
C4_AllReleased ==
    frees >= 1 => \A b \in 1..Len(buffers) : buffers[b].released >= 1

\* A define_function that panicked was reached.
DefinePanicked ==
    /\ call.fault.site = "define" /\ call.fault.kind # "err"
    /\ tr # <<>>
    /\ \E n \in 1..Len(tr[1].log) : tr[1].log[n].ev = "define"

\* C5: a panic anywhere in the body of an entry point still gives the host a
\* result with success = 0 and a non-null error_msg; one that reaches the
\* shim gives a message that begins "PANIC:"; one inside the backend's
\* define_function gives a Codegen error carrying the panic message.
C5_PanicsContained ==
    Fresh =>
        /\ outcome.k = "panic" =>
              /\ held.success = 0 /\ held.error_msg # NULL
              /\ starts_with(ErrorMessage, as_bytes(S("PANIC:")))
        /\ DefinePanicked =>
              /\ held.success = 0 /\ held.error_msg # NULL
              /\ outcome.k = "err" /\ outcome.err.kind = "Codegen"
              /\ starts_with(outcome.err.msg, S("PANIC in function '"))
              /\ ends_with(outcome.err.msg,
                           IF call.fault.kind \in {"&str", "String"} THEN call.fault.msg
                           ELSE S("unknown panic"))

C5_Witness ==
    /\ Fresh /\ outcome.k = "panic" /\ call.fault.site = "finish"
    /\ held.success = 0 /\ starts_with(ErrorMessage, as_bytes(S("PANIC: section")))

\* The module the call was given, as the reader decoded it, and the log of
\* the translator that worked on it.
MirFunctions == read_field("module", call.data[1], 0).v.functions
Log == tr[1].log
Translated == phase = "returned" /\ tr # <<>>

RuntimeSet == {RuntimeNameList[i] : i \in 1..Len(RuntimeNameList)}

\* The symbol the stated rule gives a MIR name.
Expected(n) ==
    IF starts_with(n, S("tml_")) \/ n \in RuntimeSet THEN n ELSE S("tml_") \o n

NamePool(fs) ==
    {fs[k].name : k \in 1..Len(fs)}
    \cup {Log[n].name : n \in {m \in 1..Len(Log) : Log[m].ev # "define"}} \cup RuntimeSet

\* The call site a declaration made on the fly was made for.
CallSiteOf(n) ==
    LET later == {m \in (n + 1)..Len(Log) : Log[m].ev = "call"} IN
    IF later = {} THEN <<>> ELSE <<Log[CHOOSE m \in later : \A x \in later : m <= x].name>>

\* C6: a MIR name that starts with "tml_" or is a runtime name resolves to
\* itself, any other name n to "tml_" + n; the resolver of the module
\* translator and the one of the function translator agree on every name;
\* resolving a resolved symbol gives it back; and the symbols the
\* declarations were made under are the resolved ones (or their
\* disambiguated forms).
C6_Resolver ==
    Translated =>
        LET fs == MirFunctions IN
        /\ \A n \in NamePool(fs) :
              /\ resolve_symbol_name(tr[1], n) = Expected(n)
              /\ ftx_resolve_symbol_name([t |-> tr[1]], n) = resolve_symbol_name(tr[1], n)
              /\ resolve_symbol_name(tr[1], resolve_symbol_name(tr[1], n))
                    = resolve_symbol_name(tr[1], n)
        /\ \A n \in 1..Len(Log) :
              /\ (Log[n].ev = "declare" /\ Log[n].by = "user") =>
                    LET sym == Expected(fs[Log[n].index + 1].name)
                    IN  Log[n].name \in {sym, unique_symbol(sym, Log[n].sig)}
              /\ (Log[n].ev = "declare" /\ Log[n].by = "call" /\ CallSiteOf(n) # <<>>) =>
                    LET sym == Expected(CallSiteOf(n)[1])
                    IN  Log[n].name \in {sym, unique_symbol(sym, Log[n].sig)}

C6_Witness ==
    /\ Translated
    /\ \E n \in 1..Len(Log) :
          Log[n].ev = "declare" /\ Log[n].by = "user" /\ Log[n].name = S("print")
    /\ \E n \in 1..Len(Log) :
          /\ Log[n].ev = "declare" /\ Log[n].by = "call" /\ Log[n].name = S("tml_ext")
          /\ CallSiteOf(n) = <<S("ext")>>

\* The declaration phase has run to its end; the backend module as it was then.
DeclarationDone == Translated /\ tr[1].declared # <<>>
DeclaredModule == tr[1].declared[1].module

Exported(func) == func.is_public \/ func.name \in {S("main"), S("tml_main")}

\* The successful declarations made for the k-th function of the module, the
\* symbol it was declared under and the function id it got.
UserDeclarations(k) ==
    {n \in 1..Len(Log) : Log[n].ev = "declare" /\ Log[n].by = "user"
                         /\ Log[n].index = k - 1 /\ Log[n].ok}
LastOf(ns) == CHOOSE n \in ns : \A m \in ns : m <= n
SymbolOf(k) == Log[LastOf(UserDeclarations(k))].name
IdOf(k) == Log[LastOf(UserDeclarations(k))].id

LinkageIn(m, sym) ==
    m.functions[CHOOSE i \in 1..Len(m.functions) : m.functions[i].name = sym].linkage

\* C7 as stated: after the declaration phase the symbols declared Export are
\* exactly the symbols of the functions that are public or named main or
\* tml_main; every other function of the module is Local; no symbol declared
\* for the runtime or at a call site is exported.
C7_ExportSet ==
    DeclarationDone =>
        /\ Symbols(DeclaredModule, "Export")
              = {SymbolOf(k) : k \in {j \in 1..Len(MirFunctions) : Exported(MirFunctions[j])}}
        /\ \A k \in 1..Len(MirFunctions) :
              ~Exported(MirFunctions[k]) => LinkageIn(DeclaredModule, SymbolOf(k)) = "Local"
        /\ \A n \in 1..Len(Log) :
              (Log[n].ev = "declare" /\ Log[n].by \in {"runtime", "call"} /\ Log[n].ok)
                  => LinkageIn(tr[1].module, Log[n].name) # "Export"

\* The backend module has the runtime function rt as the fixed ABI gives it.
RuntimeImport(m, rt) ==
    \E i \in 1..Len(m.functions) :
        /\ m.functions[i].name = rt[1]
        /\ m.functions[i].linkage = "Import"
        /\ m.functions[i].signature = [params |-> rt[2], returns |-> rt[3]]

\* C8 as stated: whatever the module's own functions are called, after the
\* declaration phase every runtime name is declared under its bare name with
\* Import linkage and its fixed signature.
C8_Original ==
    DeclarationDone => \A r \in 1..Len(rt_funcs) : RuntimeImport(DeclaredModule, rt_funcs[r])

\* The keys the declarations of the module's own functions put into func_ids.
UserKeys(fs) ==
    {fs[k].name : k \in 1..Len(fs)}
    \cup {Log[n].name : n \in UNION {UserDeclarations(k) : k \in 1..Len(fs)}}

\* C8, amended: after the declaration phase every runtime name that the
\* module's own functions have not taken (as a MIR name or as a symbol) is
\* declared under its bare name with Import linkage and its fixed signature;
\* for a name they have taken no runtime declaration is made, and the symbol
\* keeps the linkage and signature of the module's function.
C8_RuntimeImports ==
    DeclarationDone =>
        LET keys == UserKeys(MirFunctions) IN
        \A r \in 1..Len(rt_funcs) :
            IF rt_funcs[r][1] \in keys
            THEN /\ ~\E n \in 1..Len(Log) :
                        Log[n].ev = "declare" /\ Log[n].by = "runtime"
                        /\ Log[n].name = rt_funcs[r][1]
                 /\ ~RuntimeImport(DeclaredModule, rt_funcs[r])
            ELSE RuntimeImport(DeclaredModule, rt_funcs[r])

C8_Witness ==
    /\ DeclarationDone
    /\ S("print") \in UserKeys(MirFunctions)
    /\ LinkageIn(DeclaredModule, S("print")) = "Export"
    /\ S("tml_set_output_suppressed") \in UserKeys(MirFunctions)
    /\ RuntimeImport(DeclaredModule, rt_funcs[2])

HasBody(func) == func.blocks # <<>>

\* The function ids the body of the k-th function was defined under.
DefinedUnder(k) ==
    {Log[n].id : n \in {m \in 1..Len(Log) : Log[m].ev = "define" /\ Log[m].index = k - 1
                                             /\ Log[m].ok}}

\* Two functions, and no third, share a MIR name, differ in signature and
\* both have a body.
Overloaded(i, j) ==
    /\ i < j
    /\ MirFunctions[i].name = MirFunctions[j].name
    /\ build_signature(MirFunctions[i]) # build_signature(MirFunctions[j])
    /\ HasBody(MirFunctions[i]) /\ HasBody(MirFunctions[j])
    /\ \A k \in 1..Len(MirFunctions) :
          MirFunctions[k].name = MirFunctions[i].name => k \in {i, j}

\* C9 as stated: a full compile of a module with two same-named functions of
\* different signatures, both with a body, defines both bodies, the first
\* under the resolved symbol and the second under the disambiguated one, each
\* under the function id declared with that body's own signature.
C9_BothDefined ==
    (Translated /\ call.entry = "compile" /\ held.success = 1) =>
        \A i, j \in 1..Len(MirFunctions) :
            Overloaded(i, j) =>
                LET sym == Expected(MirFunctions[i].name)
                    fns == tr[1].module.functions
                IN  \E a \in DefinedUnder(i), b \in DefinedUnder(j) :
                        /\ fns[a + 1].name = sym
                        /\ fns[a + 1].signature = build_signature(MirFunctions[i])
                        /\ fns[b + 1].name = unique_symbol(sym, build_signature(MirFunctions[j]))
                        /\ fns[b + 1].signature = build_signature(MirFunctions[j])

\* C10 as stated: a call site that names a MIR name declared more than once
\* resolves to the function id of the last declaration under that name.
C10_LatestWins ==
    Translated =>
        \A n \in 1..Len(Log) :
            Log[n].ev = "call" =>
                LET same == {k \in 1..Len(MirFunctions) : MirFunctions[k].name = Log[n].name}
                IN  Cardinality(same) >= 2 => Log[n].id = IdOf(LastOf(same))

\* The first function of the module that resolves to the symbol of the j-th.
FirstWithSymbol(fs, j) ==
    CHOOSE i \in 1..j : /\ Expected(fs[i].name) = Expected(fs[j].name)
                        /\ \A k \in 1..(i - 1) : Expected(fs[k].name) # Expected(fs[j].name)

\* The j-th function resolves to a symbol an earlier function holds with
\* another backend signature.
Clashes(fs, j) ==
    build_signature(fs[FirstWithSymbol(fs, j)]) # build_signature(fs[j])

\* C11 as stated: whenever functions of a module resolve to one symbol with
\* different backend signatures, the declaration phase does not fail and each
\* later one is declared under the synthesized unique symbol, whether the MIR
\* names are the same or differ by the "tml_" prefix, in either order.
C11_ClashesDisambiguated ==
    Translated =>
        LET fs == MirFunctions IN
        \A j \in 1..Len(fs) :
            Clashes(fs, j) =>
                /\ DeclarationDone
                /\ SymbolOf(j) = unique_symbol(Expected(fs[j].name), build_signature(fs[j]))

\* The index list a CGU call was given (the pointer is not null), as a set.
ListGiven == call.entry = "compile_cgu" /\ call.indices # <<>>
Listed == {call.indices[1][n] : n \in 1..Len(call.indices[1])}

\* The calls of define_function made for the body of the k-th function.
Defines(k) == {n \in 1..Len(Log) : Log[n].ev = "define" /\ Log[n].index = k - 1}

FirstOfName(fs, k) == \A i \in 1..(k - 1) : fs[i].name # fs[k].name

Running(t) == [t EXCEPT !.res = <<>>]

\* C13: a function with zero blocks is declared in the backend module, no
\* call of define_function is made for it, and translate_function on it
\* returns Ok and leaves the translator as it was.
C13_EmptyDeclaredOnly ==
    DeclarationDone =>
        LET fs == MirFunctions IN
        \A k \in 1..Len(fs) :
            fs[k].blocks = <<>> =>
                /\ UserDeclarations(k) # {}
                /\ Defines(k) = {}
                /\ translate_function(Running(tr[1]), fs[k], k - 1, call.fault)
                       = Running(tr[1])

C13_Witness ==
    /\ DeclarationDone /\ call.entry = "compile" /\ held.success = 1
    /\ \E k \in 1..Len(MirFunctions) :
          /\ MirFunctions[k].blocks = <<>> /\ FirstOfName(MirFunctions, k)
          /\ UserDeclarations(k) # {} /\ Defines(k) = {}
    /\ \E j \in 1..Len(MirFunctions) : Defines(j) # {}

\* The call was given at least a whole header; its first four bytes, and the
\* major version its next two stand for.
HeaderGiven == Fresh /\ call.data # <<>> /\ Len(call.data[1]) >= 8
FirstFour == SubSeq(call.data[1], 1, 4)
MajorGiven == call.data[1][5] + 256 * call.data[1][6]
HeaderPasses == verify_header(call.data[1], 0) = Ok(<<>>, 8)

\* C14 as stated: a stream whose first four bytes are 'T','M','I','R' in that
\* order, followed by a little-endian major version 1 and any minor version,
\* passes the header check.
C14_Original ==
    (HeaderGiven /\ FirstFour = S("TMIR") /\ MajorGiven = MIR_VERSION_MAJOR) => HeaderPasses

\* C14, amended: a stream whose first four bytes are 'R','I','M','T' (the
\* little-endian bytes of 0x544D4952), followed by a little-endian major
\* version 1 and any minor version, passes the header check; a stream that
\* starts with 'T','M','I','R' is refused with "invalid magic".
C14_HeaderLittleEndian ==
    HeaderGiven =>
        /\ (FirstFour = S("RIMT") /\ MajorGiven = MIR_VERSION_MAJOR) => HeaderPasses
        /\ FirstFour = S("TMIR") =>
              /\ ~verify_header(call.data[1], 0).ok
              /\ held.success = 0
              /\ ErrorMessage = as_bytes(S("MIR deserialization error: invalid magic: ")
                                         \o S("expected 0x544D4952, got 0x52494D54"))

C14_Witness ==
    /\ HeaderGiven /\ FirstFour = S("RIMT") /\ MajorGiven = MIR_VERSION_MAJOR
    /\ SubSeq(call.data[1], 7, 8) = <<255, 255>>
    /\ HeaderPasses /\ held.success = 1

\* Streams made from the stream d: d with another minor version, d with a
\* byte after its end, and d with one byte that is 1 (a `true`) made 2.
Siblings(d) ==
    {SubSeq(d, 1, 6) \o minor \o SubSeq(d, 9, Len(d)) : minor \in {<<0, 0>>, <<1, 0>>}}
    \cup {d \o <<0>>}
    \cup {[d EXCEPT ![i] = 2] : i \in {j \in 9..Len(d) : d[j] = 1}}

\* C15 as stated: the decoder is injective on the inputs it accepts: two
\* distinct streams that read_module both accepts decode to different
\* Modules.
C15_Injective ==
    (Fresh /\ call.data # <<>> /\ Len(call.data[1]) >= 8) =>
        LET d == call.data[1]
            m == read_field("module", d, 0)
        IN  m.ok =>
                \A e \in Siblings(d) \ {d} :
                    LET n == read_field("module", e, 0) IN n.ok => n.v # m.v

\* The log entries of the declaration phase, and those of what comes after.
PhaseOne(n) == Log[n].ev = "declare" /\ Log[n].by \in {"user", "runtime"}

\* The function ids declared for the functions of the module named name.
IdsOfName(fs, name) == {IdOf(k) : k \in {j \in 1..Len(fs) : fs[j].name = name}}

\* C16: in translate_module and in generate_ir_text every declaration of a
\* module function and of a runtime function comes before the first body is
\* translated; a call site that names a function of the module, a later one
\* included, resolves to an id declared for that name and makes no
\* declaration of its own.
C16_DeclaredFirst ==
    DeclarationDone =>
        LET fs == MirFunctions IN
        /\ \A k \in 1..Len(fs) : UserDeclarations(k) # {}
        /\ \A r \in 1..Len(rt_funcs) : rt_funcs[r][1] \in DOMAIN tr[1].declared[1].func_ids
        /\ \A n \in 1..Len(Log) : \A m \in 1..(n - 1) : PhaseOne(n) => PhaseOne(m)
        /\ \A n \in 1..Len(Log) :
              /\ (Log[n].ev = "call" /\ IdsOfName(fs, Log[n].name) # {}) =>
                    Log[n].id \in IdsOfName(fs, Log[n].name)
              /\ (Log[n].ev = "declare" /\ Log[n].by = "call" /\ CallSiteOf(n) # <<>>) =>
                    IdsOfName(fs, CallSiteOf(n)[1]) = {}

C16_Witness ==
    /\ DeclarationDone /\ call.entry \in {"compile", "generate_ir"} /\ held.success = 1
    /\ \E n \in 1..Len(Log) :
          /\ Log[n].ev = "call"
          /\ \E k \in 1..Len(MirFunctions) :
                /\ k > Log[n].index + 1
                /\ MirFunctions[k].name = Log[n].name
                /\ Log[n].id = IdOf(k)

\* The block ids a terminator names, and those the phis of a block name.
TargetsOf(term) ==
    CASE term.tag = "Branch" -> {term.target}
      [] term.tag = "CondBranch" -> {term.true_block, term.false_block}
      [] term.tag = "Switch" ->
           {term.default_block} \cup {term.cases[n][2] : n \in 1..Len(term.cases)}
      [] OTHER -> {}

PhiSources(block) ==
    UNION {{Phis(block)[n].inst.incoming[m][2] : m \in 1..Len(Phis(block)[n].inst.incoming)} :
              n \in 1..Len(Phis(block))}

BlockRefs(func) ==
    UNION {(IF func.blocks[b].terminator = <<>> THEN {}
            ELSE TargetsOf(func.blocks[b].terminator[1])) \cup PhiSources(func.blocks[b]) :
              b \in 1..Len(func.blocks)}

BlockIds(func) == {func.blocks[b].id : b \in 1..Len(func.blocks)}

\* C17 as stated: whenever read_module returns Ok, every block id a Branch,
\* CondBranch or Switch terminator or a phi incoming pair of a function names
\* is the id of a block of that function.
C17_BlockRefsDefined ==
    (Fresh /\ call.data # <<>>) =>
        LET m == read_field("module", call.data[1], 0) IN
        m.ok => \A k \in 1..Len(m.v.functions) :
                    BlockRefs(m.v.functions[k]) \subseteq BlockIds(m.v.functions[k])

\* What the builders of the call held, one record per function translated.
AllBuilt == tr[1].built

\* The places (block, place) of the block parameters appended for `for`.
ParamsFor(b, for) ==
    {<<c, p>> \in UNION {{<<c, q>> : q \in 1..Len(b.block_params[c])} :
                            c \in 1..Len(b.block_params)} :
        b.block_params[c][p].for = for}

AbiIndex(func, i) ==
    Cardinality({j \in 1..i : mir_type_to_cranelift(func.params[j].ty) # <<>>})

\* C19 as stated: for every function that has blocks, whatever its
\* parameters are (Unit ones included), after pass 3 the value id of every
\* MIR parameter that has a backend parameter is bound to the entry-block
\* parameter that was appended for that very parameter.
C19_ParamsBound ==
    Translated =>
        LET fs == MirFunctions IN
        \A n \in 1..Len(AllBuilt) :
            LET b == AllBuilt[n]
                func == fs[b.index + 1]
            IN  func.blocks # <<>> =>
                    \A i \in 1..Len(func.params) :
                        mir_type_to_cranelift(func.params[i].ty) # <<>> =>
                            /\ func.params[i].value_id \in DOMAIN b.bound
                            /\ ParamsFor(b, <<"abi", AbiIndex(func, i)>>)
                                   = {b.bound[func.params[i].value_id]}

\* The value the i-th phi of a block lists for the predecessor from (none if
\* it lists none).
IncomingFrom(phi, from) ==
    LET ns == {n \in 1..Len(phi.inst.incoming) : phi.inst.incoming[n][2] = from} IN
    IF ns = {} THEN <<>>
    ELSE <<phi.inst.incoming[CHOOSE n \in ns : \A m \in ns : n <= m][1].id>>

\* C20 as stated: on every Branch or CondBranch edge from b to t the i-th
\* block argument is the incoming value t's i-th phi lists for b, and its
\* type after coercion is the type of t's i-th block parameter, whatever
\* integer or float types the value and the parameter have.
C20_PhiArgsCoerced ==
    Translated =>
        \A n \in 1..Len(AllBuilt) :
            LET b == AllBuilt[n] IN
            \A e \in 1..Len(b.jumps) :
                LET j == b.jumps[e]
                    phis == IF j.to \in DOMAIN b.phi_info THEN b.phi_info[j.to] ELSE <<>>
                    params == b.block_params[b.blocks[j.to]]
                IN  /\ Len(j.args) = Len(phis)
                    /\ \A i \in 1..Len(phis) :
                          IncomingFrom(phis[i], j.from) # <<>> =>
                              /\ j.args[i].src = IncomingFrom(phis[i], j.from)
                              /\ j.args[i].ty = params[i].ty

\* C21: when an edge from block b enters a block one of whose phis lists no
\* incoming pair for b, translation does not fail and the block argument
\* passed for that phi is a zero constant of the phi's inferred type (the
\* type of its block parameter), for integer and float types alike.
C21_MissingEdgeZero ==
    Translated =>
        \A n \in 1..Len(AllBuilt) :
            LET b == AllBuilt[n] IN
            \A e \in 1..Len(b.jumps) :
                LET j == b.jumps[e]
                    phis == IF j.to \in DOMAIN b.phi_info THEN b.phi_info[j.to] ELSE <<>>
                    params == b.block_params[b.blocks[j.to]]
                IN  \A i \in 1..Len(phis) :
                        IncomingFrom(phis[i], j.from) = <<>> =>
                            /\ b.ok
                            /\ j.args[i].src = <<>>
                            /\ j.args[i].ty = params[i].ty

\* The operands an instruction or a terminator looks up.
Operands(i) ==
    CASE i.tag = "Binary" -> <<i.left, i.right>>
      [] i.tag \in {"Unary", "Cast"} -> <<i.operand>>
      [] i.tag = "Load" -> <<i.ptr>>
      [] i.tag = "Store" -> <<i.ptr, i.value>>
      [] i.tag = "Gep" -> <<i.base>> \o i.indices
      [] i.tag = "ExtractValue" -> <<i.aggregate>>
      [] i.tag = "InsertValue" -> <<i.aggregate, i.value>>
      [] i.tag = "Call" -> i.args
      [] i.tag = "MethodCall" -> <<i.receiver>> \o i.args
      [] i.tag = "Select" -> <<i.condition, i.true_val, i.false_val>>
      [] i.tag = "StructInit" -> i.fields
      [] i.tag = "EnumInit" -> i.payload
      [] i.tag = "TupleInit" -> i.elements
      [] i.tag = "ArrayInit" -> i.elements
      [] i.tag = "ClosureInit" -> [n \in 1..Len(i.captures) |-> i.captures[n][2]]
      [] i.tag = "Return" -> i.value
      [] i.tag = "CondBranch" -> <<i.condition>>
      [] i.tag = "Switch" -> <<i.discriminant>>
      [] OTHER -> <<>>

\* The control-flow graph of a function: the successors of a block, and the
\* blocks a path from the entry reaches without passing through `avoid`.
Successors(func, id) ==
    UNION {LET t == func.blocks[n].terminator IN
           IF t = <<>> THEN {}
           ELSE CASE t[1].tag = "Branch" -> {t[1].target}
                  [] t[1].tag = "CondBranch" -> {t[1].true_block, t[1].false_block}
                  [] t[1].tag = "Switch" ->
                       {t[1].default_block}
                       \cup {t[1].cases[c][2] : c \in 1..Len(t[1].cases)}
                  [] OTHER -> {}
           : n \in {m \in 1..Len(func.blocks) : func.blocks[m].id = id}}
ReachAvoiding(func, avoid) ==
    LET step(R, n) == R \cup (UNION {Successors(func, b) : b \in R} \ avoid)
    IN  IF func.blocks = <<>> THEN {}
        ELSE fold(step, {func.blocks[1].id} \ avoid, 1, Len(func.blocks))
Reachable(func) == ReachAvoiding(func, {})
Dominates(func, a, b) == a = b \/ b \notin ReachAvoiding(func, {a})

\* Every operand use of func is dominated by its definition: a parameter,
\* an earlier instruction of the same block, or an instruction or phi of a
\* block that strictly dominates the block of the use (for the incoming
\* value of a phi, the use is at the end of the predecessor).
UsesDominated(func) ==
    LET params == {func.params[n].value_id : n \in 1..Len(func.params)}
        Defined(id, n, k) ==        \* before instruction k of the n-th block
            \/ id \in params
            \/ \E j \in 1..(k - 1) : func.blocks[n].instructions[j].result = id
            \/ \E m \in 1..Len(func.blocks) :
                  /\ func.blocks[m].id # func.blocks[n].id
                  /\ Dominates(func, func.blocks[m].id, func.blocks[n].id)
                  /\ \E j \in 1..Len(func.blocks[m].instructions) :
                        func.blocks[m].instructions[j].result = id
    IN  \A n \in 1..Len(func.blocks) :
            LET blk == func.blocks[n]
                last == Len(blk.instructions) + 1
            IN  /\ \A k \in 1..Len(blk.instructions) :
                      LET i == blk.instructions[k].inst IN
                      IF i.tag = "Phi"
                      THEN \A e \in 1..Len(i.incoming) :
                               \A m \in 1..Len(func.blocks) :
                                   func.blocks[m].id = i.incoming[e][2] =>
                                       Defined(i.incoming[e][1].id, m,
                                               Len(func.blocks[m].instructions) + 1)
                      ELSE \A o \in 1..Len(Operands(i)) : Defined(Operands(i)[o].id, n, k)
                /\ blk.terminator # <<>> =>
                      \A o \in 1..Len(Operands(blk.terminator[1])) :
                          Defined(Operands(blk.terminator[1])[o].id, n, last)

\* C22: in a function each of whose operand uses is dominated by its
\* definition, no operand lookup made while a reachable block is emitted
\* takes the zero-constant fallback, whatever the order of the block list.
C22_NoFallbackWhenDominated ==
    Translated =>
        LET fs == MirFunctions IN
        \A n \in 1..Len(AllBuilt) :
            LET b == AllBuilt[n]
                func == fs[b.index + 1]
            IN  UsesDominated(func) =>
                    \A z \in 1..Len(b.zeros) : b.zeros[z].block \notin Reachable(func)

\* C23: for every Binary instruction pass 1 records I8 for a comparison;
\* otherwise the wider operand type when both operands are integers, the
\* float operand's type when one operand is a float and the other an
\* integer, in either order, and otherwise the first known operand's type.
C23_BinaryResultType ==
    Translated =>
        LET fs == MirFunctions IN
        \A n \in 1..Len(AllBuilt) :
            LET vt == AllBuilt[n].value_types
                insts == AllInstructions(fs[AllBuilt[n].index + 1])
            IN  \A k \in 1..Len(insts) :
                    LET i == insts[k].inst
                        l == get(vt, i.left.id)
                        r == get(vt, i.right.id)
                        both == l # <<>> /\ r # <<>>
                    IN  i.tag = "Binary" =>
                            get(vt, insts[k].result) =
                                IF i.op \in {"Eq", "Ne", "Lt", "Le", "Gt", "Ge"} THEN <<"I8">>
                                ELSE IF both /\ is_int(l[1]) /\ is_int(r[1])
                                     THEN <<wider(l[1], r[1])>>
                                ELSE IF both /\ is_float(l[1]) /\ is_int(r[1]) THEN l
                                ELSE IF both /\ is_int(l[1]) /\ is_float(r[1]) THEN r
                                ELSE IF l # <<>> THEN l
                                ELSE r

\* The Alloca instructions of the functions a call translated, each with
\* the build record of its function: [b, result, alloc_type].
Allocas ==
    LET fs == MirFunctions IN
    UNION {LET insts == AllInstructions(fs[AllBuilt[n].index + 1]) IN
           {[b |-> AllBuilt[n], result |-> insts[k].result,
             alloc_type |-> insts[k].inst.alloc_type] :
               k \in {j \in 1..Len(insts) : insts[j].inst.tag = "Alloca"}}
           : n \in 1..Len(AllBuilt)}

\* The slot of an Alloca is recorded under the result id and the result is
\* bound to the slot's address at offset 0.
SlotRecorded(a) ==
    /\ a.result \in DOMAIN a.b.alloca_slots
    /\ a.result \in DOMAIN a.b.values /\ a.b.values[a.result] = POINTER_TYPE
    /\ a.result \in DOMAIN a.b.addrs /\ a.b.addrs[a.result] = <<a.b.alloca_slots[a.result]>>

\* C24 as stated: the slot of every Alloca has max(type_size(alloc_type), 8)
\* bytes, is recorded under the instruction's result id, and the result
\* value is the address of the slot at offset 0.
C24_Original ==
    Translated =>
        \A a \in Allocas :
            a.b.ok =>
                /\ SlotRecorded(a)
                /\ a.b.slots[a.b.alloca_slots[a.result]]
                       = bits_of(u32_max(type_size(a.alloc_type), u32(8)))

\* C24, amended: the slot of every Alloca has exactly type_size(alloc_type)
\* bytes, as u32 arithmetic gives it and with no minimum; it is recorded
\* under the instruction's result id and the result value is the address of
\* the slot at offset 0.  Only a build with overflow checks, on a type whose
\* size leaves u32, makes no slot: the translation panics.
C24_SlotOfTypeSize ==
    Translated =>
        \A a \in Allocas :
            IF a.b.ok
            THEN /\ SlotRecorded(a)
                 /\ a.b.slots[a.b.alloca_slots[a.result]] = bits_of(type_size(a.alloc_type))
            ELSE /\ a.result \notin DOMAIN a.b.alloca_slots
                 /\ type_size(a.alloc_type).o # <<>>
                 /\ call.fault = OverflowChecks

\* An Alloca of I32 was translated: its slot has four bytes.
C24_Witness ==
    /\ Translated
    /\ \E a \in Allocas :
          /\ a.b.ok /\ a.alloc_type = Primitive("I32")
          /\ a.b.slots[a.b.alloca_slots[a.result]] = <<0, 4>>

\* The stores to (op = "stack_store") and the loads from ("stack_load") the
\* slot of an Alloca.
SlotOps(a, op) ==
    {m \in {a.b.mem[n] : n \in 1..Len(a.b.mem)} :
        m.op = op /\ m.slot = <<a.b.alloca_slots[a.result]>>}
Fits(ty, size) == size[1] > 0 \/ bytes(ty) <= size[2]

\* C25: for every Alloca, of any alloc_type, and every Store to and Load
\* from its result pointer, the type of the value the Store writes (after
\* its coercion to the slot's width) is the type the Load reads, and that
\* type is not larger than the slot.
C25_StoreLoadAgree ==
    Translated =>
        \A a \in Allocas :
            a.b.ok =>
                \A st \in SlotOps(a, "stack_store"), ld \in SlotOps(a, "stack_load") :
                    /\ st.ty = ld.ty
                    /\ Fits(ld.ty, a.b.slots[a.b.alloca_slots[a.result]])

\* C26: the backend return emitted for a Return terminator has as many
\* operands as the function's signature has return values (none for a
\* Unit-returning function, one otherwise), and the operand has the
\* declared return type after coercion.
C26_ReturnMatchesSignature ==
    Translated =>
        LET fs == MirFunctions IN
        \A n \in 1..Len(AllBuilt) :
            LET b == AllBuilt[n]
                returns == build_signature(fs[b.index + 1]).returns
            IN  \A r \in 1..Len(b.rets) :
                    /\ Len(b.rets[r].operands) = Len(returns)
                    /\ b.rets[r].operands = returns

\* x >= a + b, in the integers
AtLeast(x, a, b) ==
    LET sum == u32_add([a EXCEPT !.o = <<>>], [b EXCEPT !.o = <<>>])
    IN  sum.o = <<>> /\ u32_le(sum, x)

\* What C27 asks of the layout of a list of field types.
LayoutSound(field_types, layout) ==
    LET n == Len(field_types)
        max_align == LET step(a, i) == Max(a, type_alignment(field_types[i]))
                     IN  fold(step, 1, 1, n)
    IN  /\ Len(layout.offsets) = n
        /\ \A i \in 1..n : layout.offsets[i].lo % type_alignment(field_types[i]) = 0
        /\ \A i \in 1..(n - 1) :
              AtLeast(layout.offsets[i + 1], layout.offsets[i], type_size(field_types[i]))
        /\ layout.total_size.lo % max_align = 0
        /\ n > 0 => AtLeast(layout.total_size, layout.offsets[n], type_size(field_types[n]))

\* The StructInit instructions of a defined struct in the functions a call
\* translated, each with the build record of its function.
StructInits ==
    LET m == read_field("module", call.data[1], 0).v
        defined == {m.structs[n].name : n \in 1..Len(m.structs)}
    IN  UNION {LET insts == AllInstructions(m.functions[AllBuilt[n].index + 1]) IN
               {[b |-> AllBuilt[n], result |-> insts[k].result] :
                   k \in {j \in 1..Len(insts) :
                             /\ insts[j].inst.tag = "StructInit"
                             /\ insts[j].inst.struct_name \in defined}}
               : n \in 1..Len(AllBuilt)}

\* C27: for every list of field types compute_struct_layout returns offsets
\* each of which is a multiple of its field's alignment, with fields that do
\* not overlap (offset[i+1] >= offset[i] + type_size(field i)), and a total
\* size that is a multiple of the largest field alignment and at least
\* offset[last] + type_size(last field).
C27_LayoutSound ==
    Translated =>
        \A si \in StructInits :
            \E n \in 1..Len(si.b.layouts) :
                /\ si.b.layouts[n].by = si.result
                /\ LayoutSound(si.b.layouts[n].field_types, si.b.layouts[n].layout)

\* The accesses ExtractValue (a load) and InsertValue (a store) make with
\* the index list <<i>> on the base address a StructInit produced.
FieldAccesses(si, i) ==
    LET m == read_field("module", call.data[1], 0).v
        insts == AllInstructions(m.functions[si.b.index + 1])
        by == {insts[k].result :
                  k \in {j \in 1..Len(insts) :
                            /\ insts[j].inst.tag \in {"ExtractValue", "InsertValue"}
                            /\ insts[j].inst.indices = <<i>>}}
    IN  {a \in {si.b.mem[n] : n \in 1..Len(si.b.mem)} :
            a.by \in by /\ a.slot = si.b.addrs[si.result]}

\* C28: for every struct whose definition is in the module and every field
\* index i, the byte offset at which StructInit stores field i is the offset
\* from which ExtractValue with the index list [i] loads, and at which
\* InsertValue with [i] stores, on the same base address.
C28_FieldOffsetsAgree ==
    Translated =>
        \A si \in StructInits :
            si.b.ok =>
                \A st \in {si.b.mem[n] : n \in 1..Len(si.b.mem)} :
                    (st.by = si.result /\ st.field # <<>>) =>
                        \A a \in FieldAccesses(si, st.field[1]) : a.offset = st.offset

\* C29: during one translate_module call no backend function id is passed
\* to define_function more than once, distinct MIR names declared onto the
\* same function id included.
C29_DefinedOncePerId ==
    (Translated /\ call.entry \in {"compile", "compile_cgu"}) =>
        \A i, j \in 1..Len(Log) :
            (Log[i].ev = "define" /\ Log[j].ev = "define" /\ Log[i].id = Log[j].id) => i = j

\* The functions (by position in the module) a call asks bodies for: the
\* listed ones, or all of them without a list.
Requested ==
    LET all == 1..Len(MirFunctions) IN
    IF ListGiven /\ Listed # {} THEN {k \in all : (k - 1) \in Listed} ELSE all

\* C30: for every MIR name in the requested subset of which at least one
\* requested function has a body, translate_module defines a body for that
\* name; a zero-block declaration of the same name earlier in the subset
\* does not suppress it.
C30_BodyNotSuppressed ==
    (Translated /\ call.entry \in {"compile", "compile_cgu"} /\ held.success = 1) =>
        LET fs == MirFunctions IN
        \A k \in Requested :
            HasBody(fs[k]) =>
                \E j \in 1..Len(fs) : fs[j].name = fs[k].name /\ DefinedUnder(j) # {}

=============================================================================
